---- MODULE Spec2Model ----
(***************************************************************************)
(* Master-AI-CoPartner: the IntentRouter gating state machine              *)
(* (core/intent_router.py) with the response backend it calls              *)
(* (ai_engine.process, seen through IntentRouter._call_engine).            *)
(*                                                                         *)
(* Spec      router operations called one at a time (each call atomic).    *)
(* SpecConc  router operations called from several threads, route_intent   *)
(*           interleaved statement by statement.                           *)
(***************************************************************************)
EXTENDS Integers, Sequences, FiniteSets, TLC

(***************************************************************************)
(* Bounds of the model.                                                    *)
(***************************************************************************)
\* backend calls made in one run (each call returns a text with a fresh id)
MaxCalls == 4
\* trigger calls counted per one-shot flag before the counter saturates
MaxBurst == 2
\* backend calls made in one run of the threaded specification
MaxConcCalls == 4
\* times each one-shot flag is raised in one run of the threaded specification
MaxTriggers == 1
\* register_message calls in one run of the threaded specification
MaxRegisters == 2
\* set_auto_reply calls in one run of the threaded specification
MaxSwitches == 1
\* route_intent calls per worker in one run of the threaded specification
MaxRoutes == 1
\* subscribe calls in one run of the bus specification
MaxSubscriptions == 3
\* times the clock is seen to advance in one run of the command specification
MaxAdvances == 1
\* calls of add_memory
MaxMemories == 2
\* recorder threads started and F12 presses in one run of the capture specification
MaxRecorders == 2
MaxPresses == 4
\* texts put on the queue of the speech output in one run
MaxUtterances == 3
\* presses of the watch hotkey, and snapshots of the watch loop, in one run
MaxToggles == 6
MaxCycles == 3
\* calls of Hands.execute in one run
MaxExecutes == 2

(***************************************************************************)
(* Strings that the code normalises are sequences of characters.           *)
(***************************************************************************)
VOICE_INPUT == <<"v","o","i","c","e","_","i","n","p","u","t">>
VOICE_RAW == <<" ","V","o","i","c","e","_","I","N","P","U","T"," ">>
TWITCH == <<"t","w","i","t","c","h">>
CLI == <<"C","L","I">>

\* str.lower() on one character
lower_char(c) ==
    CASE c = "V" -> "v" [] c = "I" -> "i" [] c = "N" -> "n" [] c = "P" -> "p"
      [] c = "U" -> "u" [] c = "T" -> "t" [] c = "C" -> "c" [] c = "L" -> "l"
      [] c = "H" -> "h" [] c = "M" -> "m" [] c = "S" -> "s" [] c = "O" -> "o"
      [] c = "R" -> "r" [] c = "A" -> "a" [] c = "E" -> "e" [] c = "D" -> "d"
      [] OTHER -> c

\* str.lower()
lower(s) == [i \in 1..Len(s) |-> lower_char(s[i])]

RECURSIVE lstrip(_)
lstrip(s) == IF s # <<>> /\ Head(s) = " " THEN lstrip(Tail(s)) ELSE s

RECURSIVE rstrip(_)
rstrip(s) ==
    IF s # <<>> /\ s[Len(s)] = " " THEN rstrip(SubSeq(s, 1, Len(s) - 1)) ELSE s

\* str.strip()
strip(s) == rstrip(lstrip(s))

(***************************************************************************)
(* Messages: the dict handed to register_message, or None.                 *)
(* kind "None" is Python None, "empty" the empty dict {} (falsy), "dict"   *)
(* a dict with the keys user, text, source.                                *)
(***************************************************************************)
NoneMsg == [kind |-> "None", user |-> "", text |-> "", source |-> <<>>]
EmptyDict == [kind |-> "empty", user |-> "?", text |-> "", source |-> <<>>]
ChatA == [kind |-> "dict", user |-> "viewerA", text |-> "question A", source |-> TWITCH]
ChatB == [kind |-> "dict", user |-> "viewerB", text |-> "question B", source |-> CLI]
VoiceV == [kind |-> "dict", user |-> "voice", text |-> "spoken V", source |-> VOICE_INPUT]
VoiceW == [kind |-> "dict", user |-> "voice", text |-> "spoken W", source |-> VOICE_RAW]

\* the messages an input adapter may register
Messages == {ChatA, ChatB, VoiceV, VoiceW, EmptyDict}

\* the vision_description argument: "" stands for None or "" (both falsy)
Visions == {"", "screen"}

\* what one backend call does: return a non-empty text, return "", or raise
Outcomes == {"text", "empty", "raise"}

(***************************************************************************)
(* Texts.  A backend call is opaque: its output is the text with a fresh   *)
(* id, remembered together with the prompt it answers.  A prompt holds the *)
(* message's user and text, the vision block and, in verify mode, the      *)
(* draft (a reference to the text pasted into it).                         *)
(***************************************************************************)
NoRef == [id |-> 0, mode |-> "none", user |-> "", text |-> ""]
NoPrompt == [mode |-> "none", user |-> "", text |-> "", vision |-> "", draft |-> NoRef]
NoneVal == [kind |-> "None", id |-> 0, empty |-> TRUE, prompt |-> NoPrompt]

\* `draft or ""` pasted into the verify prompt: an empty or None draft leaves nothing
draft_or_empty(draft) ==
    IF draft.kind = "None" \/ draft.empty
    THEN NoRef
    ELSE [id |-> draft.id, mode |-> draft.prompt.mode,
          user |-> draft.prompt.user, text |-> draft.prompt.text]

(***************************************************************************)
(* The router's fields, the backend's call counter, the record of the last *)
(* router operation (what its caller and the backend observed) and the     *)
(* history of the operations so far, kept as the phase of each scenario    *)
(* the properties below speak about.  For the threaded specification: each *)
(* worker's position in route_intent (pc) and its local variables (loc),   *)
(* the position of the thread inside register_message (reg), and the count *)
(* of what was consumed and released per trigger (conc).                   *)
(***************************************************************************)
VARIABLES
    auto_reply_enabled,
    respond_now_requested,
    respond_to_suggestion_requested,
    last_message,
    suggested_response,
    n_calls,
    result,
    history,
    pc,
    loc,
    reg,
    conc,
    subscribers,
    sub_log,
    published,
    clock,
    advances,
    last_used_global,
    last_used_user,
    custom_commands,
    cmd_result,
    rendered,
    short_term,
    long_term,
    created,
    engine_result,
    main_result,
    hotkey,
    listener,
    recorder,
    stale,
    dispatch,
    mode_result,
    tts,
    waiter,
    watch,
    toggle,
    hands

NoSuggestion == [kind |-> "None", message |-> NoneMsg, draft |-> NoneVal]

\* the router object as one record
Self ==
    [auto_reply_enabled |-> auto_reply_enabled,
     respond_now_requested |-> respond_now_requested,
     respond_to_suggestion_requested |-> respond_to_suggestion_requested,
     last_message |-> last_message,
     suggested_response |-> suggested_response]

NoPre ==
    [auto_reply_enabled |-> FALSE,
     respond_now_requested |-> FALSE,
     respond_to_suggestion_requested |-> FALSE,
     last_message |-> NoneMsg,
     suggested_response |-> NoSuggestion]

\* the record of an operation that is not route_intent
Plain(op, arg) ==
    [op |-> op, arg |-> arg, pre |-> NoPre, vision |-> "",
     calls |-> <<>>, ret |-> NoneVal, raised |-> FALSE]

(***************************************************************************)
(* Prompt builder and backend call.                                        *)
(***************************************************************************)
\* _build_prompt: rules, optional vision block, "user: text", and the draft in verify mode
build_prompt(message, vision_description, mode, draft) ==
    [mode |-> mode,
     user |-> message.user,
     text |-> message.text,
     vision |-> IF vision_description # "" THEN vision_description ELSE "",
     draft |-> IF mode = "verify" THEN draft_or_empty(draft) ELSE NoRef]

\* _call_engine: ai_engine.process(prompt, {"source": source}); the call either
\* returns a text (fresh id) or raises, and a raise is not caught here
call_engine(prompt, source, id, outcome) ==
    [source |-> source,
     prompt |-> prompt,
     raised |-> outcome = "raise",
     out |-> IF outcome = "raise"
             THEN NoneVal
             ELSE [kind |-> "str", id |-> id, empty |-> outcome = "empty",
                   prompt |-> prompt]]

draft_only(message, vision_description, id, outcome) ==
    call_engine(build_prompt(message, vision_description, "draft", NoneVal),
                "intent_router_draft", id, outcome)

verify_and_finalize(draft, message, vision_description, id, outcome) ==
    call_engine(build_prompt(message, vision_description, "verify", draft),
                "intent_router_verify", id, outcome)

\* mutation: the draft handed back unverified
final_of_draft(d, f) == d.out

\* lines 176-179: what _generate_response hands back is the verify call's output
final_of(d, f) == f.out

\* mutation: a failed verify pass answered with the draft
generate_response_fallback(message, vision_description, id, o1, o2) ==
    LET d == draft_only(message, vision_description, id, o1)
        f == verify_and_finalize(d.out, message, vision_description, id + 1, o2)
    IN  IF d.raised
        THEN [calls |-> <<d>>, ret |-> NoneVal, raised |-> TRUE]
        ELSE IF f.raised
        THEN [calls |-> <<d, f>>, ret |-> d.out, raised |-> FALSE]
        ELSE [calls |-> <<d, f>>, ret |-> f.out, raised |-> FALSE]

\* _generate_response: draft, then verify over the draft; returns the verify output
generate_response(message, vision_description, id, o1, o2) ==
    LET d == draft_only(message, vision_description, id, o1)
        f == verify_and_finalize(d.out, message, vision_description, id + 1, o2)
    IN  IF d.raised
        THEN [calls |-> <<d>>, ret |-> NoneVal, raised |-> TRUE]
        ELSE IF f.raised
        THEN [calls |-> <<d, f>>, ret |-> NoneVal, raised |-> TRUE]
        ELSE [calls |-> <<d, f>>, ret |-> final_of(d, f), raised |-> FALSE]

(***************************************************************************)
(* route_intent, as a function of the router record, its argument, the id  *)
(* of the next backend call and the outcomes of the backend calls it makes.*)
(* Returns the router record after the call, the backend calls made, the   *)
(* return value and whether an exception left the call.                    *)
(***************************************************************************)
\* `if not self.last_message`: None and {} are falsy
has_message(self) == self.last_message.kind = "dict"

\* str(self.last_message.get("source", "")).strip().lower()
src_of(message) == lower(strip(message.source))

\* mutation: the source compared as given, without strip() and lower()
is_voice_exact(message) == message.source = VOICE_INPUT

\* line 107: `if src == "voice_input"`
is_voice(message) == src_of(message) = VOICE_INPUT

\* `if not self.suggested_response`: a queued dict is never empty, so only None is falsy
has_suggestion(self) == self.suggested_response.kind = "dict"

\* lines 139-142: the queued suggestion
queued(message, suggestion) ==
    [kind |-> "dict", message |-> message, draft |-> suggestion]

\* lines 108-112, 118-122, 126-130: return self._generate_response(...)
respond(self, vision_description, id, o1, o2) ==
    LET g == generate_response(self.last_message, vision_description, id, o1, o2)
    IN  [self |-> self, calls |-> g.calls, ret |-> g.ret, raised |-> g.raised]

\* mutation: the respond-now flag left set
consume_now_kept(self) == self

\* lines 124-125: the respond-now flag is reset before the response is generated
consume_now(self) == [self EXCEPT !.respond_now_requested = FALSE]

\* mutation: the respond-to-suggestion flag left set
consume_suggestion_kept(self) == self

\* line 146: the respond-to-suggestion flag is reset before the verify pass
consume_suggestion(self) == [self EXCEPT !.respond_to_suggestion_requested = FALSE]

\* mutation: the verified suggestion left in the queue
clear_suggestion_kept(self) == self

\* line 153: the suggestion is discarded once verified
clear_suggestion(self) == [self EXCEPT !.suggested_response = NoSuggestion]

\* mutation: `or` for `and`
approved_or(self) == self.respond_to_suggestion_requested \/ has_suggestion(self)

\* line 145: `if self.respond_to_suggestion_requested and self.suggested_response`
approved(self) == self.respond_to_suggestion_requested /\ has_suggestion(self)

\* mutation: a failed verify pass over the queued draft caught and answered with None
release_swallowing(self, vision_description, id, outcome, before) ==
    IF approved(self)
    THEN LET s2 == consume_suggestion(self)
             f == verify_and_finalize(s2.suggested_response.draft,
                                      s2.suggested_response.message,
                                      vision_description, id, outcome)
         IN  IF f.raised
             THEN [self |-> s2, calls |-> before \o <<f>>,
                   ret |-> NoneVal, raised |-> FALSE]
             ELSE [self |-> clear_suggestion(s2), calls |-> before \o <<f>>,
                   ret |-> f.out, raised |-> FALSE]
    ELSE [self |-> self, calls |-> before, ret |-> NoneVal, raised |-> FALSE]

\* lines 145-156: release the queued suggestion if it was asked for
release(self, vision_description, id, outcome, before) ==
    IF approved(self)
    THEN LET s2 == consume_suggestion(self)
             f == verify_and_finalize(s2.suggested_response.draft,
                                      s2.suggested_response.message,
                                      vision_description, id, outcome)
         IN  IF f.raised
             THEN [self |-> s2, calls |-> before \o <<f>>,
                   ret |-> NoneVal, raised |-> TRUE]
             ELSE [self |-> clear_suggestion(s2), calls |-> before \o <<f>>,
                   ret |-> f.out, raised |-> FALSE]
    ELSE [self |-> self, calls |-> before, ret |-> NoneVal, raised |-> FALSE]

\* lines 132-156: co-pilot mode
copilot(self, vision_description, id, o1, o2) ==
    IF ~has_suggestion(self)
    THEN LET d == draft_only(self.last_message, vision_description, id, o1)
         IN  IF d.raised
             THEN [self |-> self, calls |-> <<d>>, ret |-> NoneVal, raised |-> TRUE]
             ELSE release([self EXCEPT !.suggested_response =
                                    queued(self.last_message, d.out)],
                          vision_description, id + 1, o2, <<d>>)
    ELSE release(self, vision_description, id, o1, <<>>)

\* mutation: the auto-reply answer also discards the queued suggestion
auto_reply_clearing(self, vision_description, id, o1, o2) ==
    LET r == respond(self, vision_description, id, o1, o2)
    IN  [r EXCEPT !.self = clear_suggestion(r.self)]

\* lines 117-122: auto-reply answers at once and does not touch the suggestion queue
auto_reply(self, vision_description, id, o1, o2) ==
    respond(self, vision_description, id, o1, o2)

route_intent(self, vision_description, id, o1, o2) ==
    IF ~has_message(self)
    THEN [self |-> self, calls |-> <<>>, ret |-> NoneVal, raised |-> FALSE]
    ELSE IF is_voice(self.last_message)
    THEN respond(self, vision_description, id, o1, o2)
    ELSE IF self.auto_reply_enabled
    THEN auto_reply(self, vision_description, id, o1, o2)
    ELSE IF self.respond_now_requested
    THEN respond(consume_now(self), vision_description, id, o1, o2)
    ELSE copilot(self, vision_description, id, o1, o2)

\* mutation: the old suggestion survives a new message
registered_keeping(self, message) == [self EXCEPT !.last_message = message]

\* lines 73-75, register_message: the fields after the call
registered(self, message) ==
    [self EXCEPT !.last_message = message, !.suggested_response = NoSuggestion]

(***************************************************************************)
(* History.  Nothing below is read by the router: these observers only     *)
(* remember what was called, in which order, and what came back.           *)
(***************************************************************************)
VoiceMessages == {VoiceV, VoiceW}
ChatMessages == {ChatA, ChatB}

Min(a, b) == IF a < b THEN a ELSE b

FirstOut(calls) == IF Len(calls) > 0 THEN calls[1].out ELSE NoneVal

\* per one-shot flag: the trigger calls of the current burst (burst: a burst starts
\* with the first trigger call after the flag was acted on), whether a route_intent
\* call has acted on the flag since (spent), and the responses released through the
\* flag since the burst started (released)
FlagIdle == [burst |-> 0, spent |-> FALSE, released |-> 0]
OnTrigger(m) ==
    IF m.spent \/ m.burst = 0
    THEN [burst |-> 1, spent |-> FALSE, released |-> 0]
    ELSE [m EXCEPT !.burst = Min(m.burst + 1, MaxBurst)]
OnAct(m, ret) ==
    [burst |-> m.burst, spent |-> TRUE,
     released |-> Min(m.released + (IF ret.kind # "None" THEN 1 ELSE 0), 2)]

\* a route_intent call reaches the respond-now test with the flag set
ActsOnNow(pre) ==
    /\ pre.last_message \in ChatMessages
    /\ ~pre.auto_reply_enabled
    /\ pre.respond_now_requested

\* a route_intent call reaches the respond-to-suggestion test with the flag set
\* and a suggestion queued (the draft it may need first did not raise)
ActsOnSuggestion(pre, calls) ==
    /\ pre.last_message \in ChatMessages
    /\ ~pre.auto_reply_enabled
    /\ ~pre.respond_now_requested
    /\ pre.respond_to_suggestion_requested
    /\ pre.suggested_response.kind = "dict" \/ (Len(calls) > 0 /\ ~calls[1].raised)

\* plain co-pilot start: chat message, auto-reply off, no trigger, nothing queued
CopilotStart(pre) ==
    /\ pre.last_message \in ChatMessages
    /\ ~pre.auto_reply_enabled
    /\ ~pre.respond_now_requested
    /\ ~pre.respond_to_suggestion_requested
    /\ pre.suggested_response.kind = "None"

ScenarioIdle == [phase |-> 0, draft |-> NoneVal]

HistoryInit ==
    [queue_then_approve |-> ScenarioIdle,
     stale_then_approve |-> ScenarioIdle,
     now |-> FlagIdle,
     sug |-> FlagIdle]

\* queue_then_approve: 1 after a successful route_intent from CopilotStart,
\* 2 after trigger_respond_to_suggestion right after it, 3 after the next route_intent
\* stale_then_approve: 1 after register_message while a suggestion was queued (draft =
\* the queued draft), 2 after trigger_respond_to_suggestion, 3 after route_intent
AfterRoute(h, pre, r) ==
    [queue_then_approve |->
         IF CopilotStart(pre) /\ ~r.raised
         THEN [phase |-> 1, draft |-> FirstOut(r.calls)]
         ELSE IF h.queue_then_approve.phase = 2
         THEN [h.queue_then_approve EXCEPT !.phase = 3]
         ELSE ScenarioIdle,
     stale_then_approve |->
         IF h.stale_then_approve.phase = 2
         THEN [h.stale_then_approve EXCEPT !.phase = 3]
         ELSE ScenarioIdle,
     now |-> IF ActsOnNow(pre) THEN OnAct(h.now, r.ret) ELSE h.now,
     sug |-> IF ActsOnSuggestion(pre, r.calls) THEN OnAct(h.sug, r.ret) ELSE h.sug]

AfterTriggerNow(h) ==
    [h EXCEPT !.queue_then_approve = ScenarioIdle,
              !.stale_then_approve = ScenarioIdle,
              !.now = OnTrigger(h.now)]

AfterTriggerSuggestion(h) ==
    [h EXCEPT !.queue_then_approve =
                  IF @.phase = 1 THEN [@ EXCEPT !.phase = 2] ELSE ScenarioIdle,
              !.stale_then_approve =
                  IF @.phase = 1 THEN [@ EXCEPT !.phase = 2] ELSE ScenarioIdle,
              !.sug = OnTrigger(h.sug)]

AfterRegister(h, pre) ==
    [h EXCEPT !.queue_then_approve = ScenarioIdle,
              !.stale_then_approve =
                  IF pre.suggested_response.kind = "dict"
                  THEN [phase |-> 1, draft |-> pre.suggested_response.draft]
                  ELSE ScenarioIdle]

AfterSetAutoReply(h) ==
    [h EXCEPT !.queue_then_approve = ScenarioIdle,
              !.stale_then_approve = ScenarioIdle]

\* per one-shot flag: the flag is set and every trigger call that set it was made
\* before the last register_message call
StaleInit == [now |-> FALSE, sug |-> FALSE]
StaleAfterRegister(self) ==
    [now |-> self.respond_now_requested, sug |-> self.respond_to_suggestion_requested]
StaleAfterRoute(s, self) ==
    [now |-> s.now /\ self.respond_now_requested,
     sug |-> s.sug /\ self.respond_to_suggestion_requested]

(***************************************************************************)
(* Threads.  The router has no lock: a worker thread inside route_intent   *)
(* reads and writes the fields statement by statement and blocks in the    *)
(* backend calls, while other threads call the router's methods.           *)
(***************************************************************************)
\* threads that call route_intent (recorder workers, main.py line 142)
Workers == {"w1", "w2"}

\* a worker's locals: the vision argument, the message handed to the helper, src,
\* the draft (suggestion), the queued draft read back, final, whether an exception
\* ended the call; and for the record: the flag the call consumed (via), the trigger
\* it belongs to (epoch), and whether register_message ran to completion while the
\* worker was blocked in the co-pilot draft call (interrupted)
LocIdle ==
    [vision |-> "", message |-> NoneMsg, src |-> <<>>, draft |-> NoneVal,
     sdraft |-> NoneVal, ret |-> NoneVal, raised |-> FALSE,
     via |-> "none", epoch |-> 0, interrupted |-> FALSE]

RegIdle == [pc |-> "idle", during |-> {}]

\* calls made so far in the threaded specification
NoneMade == [registers |-> 0, switches |-> 0, routes |-> [w \in Workers |-> 0]]

\* per flag: how often it was raised (epoch), and since it was last raised how many
\* route_intent calls reset it (consumed) and how many texts were returned by calls
\* that reset it (released)
CountIdle == [epoch |-> 0, consumed |-> 0, released |-> 0]
ConcInit == [now |-> CountIdle, sug |-> CountIdle, made |-> NoneMade]

fields ==
    <<auto_reply_enabled, respond_now_requested, respond_to_suggestion_requested,
      last_message, suggested_response>>
concVars == <<pc, loc, reg, conc>>

(***************************************************************************)
(* EventBus (core/event_bus.py).  _subscribers is a dict from event name   *)
(* to the list of callbacks, modelled as a function whose domain is the    *)
(* set of keys present.  Callbacks are functions and bound methods, as     *)
(* everywhere in the repository (subscribe and the error log read          *)
(* callback.__name__); what a callback does when invoked is opaque: it     *)
(* returns, or it raises an Exception.                                     *)
(***************************************************************************)
\* event names published in the repository
Events == {"voice.transcribed", "ui.respond_now"}

\* callbacks handed to subscribe
Callbacks == {"handle_voice_transcribed", "handle_respond_now", "_handle_toggle"}

\* the data argument of publish (None by default)
Payloads == {"None", "payload"}

\* self._subscribers = {}
NoSubscribers == [e \in {} |-> <<>>]

\* mutation: a callback already listed for the event is not listed again
subscribed_once(subs, event_name, callback) ==
    IF event_name \notin DOMAIN subs
    THEN [e \in DOMAIN subs \cup {event_name} |->
              IF e = event_name THEN <<callback>> ELSE subs[e]]
    ELSE IF \E i \in 1..Len(subs[event_name]) : subs[event_name][i] = callback
    THEN subs
    ELSE [subs EXCEPT ![event_name] = Append(@, callback)]

\* lines 20-22: the key is created with an empty list if missing, then the
\* callback is appended
subscribed(subs, event_name, callback) ==
    IF event_name \notin DOMAIN subs
    THEN [e \in DOMAIN subs \cup {event_name} |->
              IF e = event_name THEN <<callback>> ELSE subs[e]]
    ELSE [subs EXCEPT ![event_name] = Append(@, callback)]

\* what a dispatch leaves behind: the calls made, in order, the callbacks whose
\* failure was logged, and whether an exception left publish
NoDispatch == [invoked |-> <<>>, errors |-> <<>>, raised |-> FALSE]

\* mutation: the first failing callback ends the dispatch and its exception
\* leaves publish
RECURSIVE deliver_aborting(_, _, _, _)
deliver_aborting(callbacks, data, fails, i) ==
    IF i > Len(callbacks)
    THEN NoDispatch
    ELSE LET call == [callback |-> callbacks[i], data |-> data, raised |-> i \in fails]
         IN  IF i \in fails
             THEN [invoked |-> <<call>>, errors |-> <<>>, raised |-> TRUE]
             ELSE LET rest == deliver_aborting(callbacks, data, fails, i + 1)
                  IN  [rest EXCEPT !.invoked = <<call>> \o @]

\* lines 33-37: the loop over the list from position i on; the calls at the
\* positions in fails raise, which is caught and logged, and the loop goes on
RECURSIVE deliver(_, _, _, _)
deliver(callbacks, data, fails, i) ==
    IF i > Len(callbacks)
    THEN NoDispatch
    ELSE LET call == [callback |-> callbacks[i], data |-> data, raised |-> i \in fails]
             rest == deliver(callbacks, data, fails, i + 1)
         IN  [invoked |-> <<call>> \o rest.invoked,
              errors |-> (IF i \in fails THEN <<callbacks[i]>> ELSE <<>>) \o rest.errors,
              raised |-> rest.raised]

\* lines 25-37, publish: a warning and nothing else without the key, the loop with it
dispatched(subs, event_name, data, fails) ==
    IF event_name \notin DOMAIN subs
    THEN NoDispatch @@ [warned |-> TRUE]
    ELSE deliver(subs[event_name], data, fails, 1) @@ [warned |-> FALSE]

\* the record of the last bus operation: for publish its arguments, what it did,
\* and how many subscribe calls had been made by then
NothingPublished ==
    [op |-> "init", event |-> "", data |-> "None", invoked |-> <<>>,
     errors |-> <<>>, warned |-> FALSE, raised |-> FALSE, subs |-> 0]

\* one publish call, statement by statement: where it is (pc), its arguments, the
\* list under the key when the call was made (entry), the position of the loop in
\* the list (next) and the callbacks invoked so far
NoPublish ==
    [pc |-> "idle", event |-> "", data |-> "None", entry |-> <<>>, next |-> 1,
     invoked |-> <<>>, warned |-> FALSE]

\* lines 26-33: without the key a warning and return, with it the loop starts on
\* self._subscribers[event_name], the list object itself
entered(subs, event_name, data) ==
    IF event_name \notin DOMAIN subs
    THEN [NoPublish EXCEPT !.pc = "returned", !.event = event_name, !.data = data,
                           !.warned = TRUE]
    ELSE [NoPublish EXCEPT !.pc = "loop", !.event = event_name, !.data = data,
                           !.entry = subs[event_name]]

\* line 33: the list iterator has a next item while its position is within the
\* length the list has now
has_next(subs, d) == d.next <= Len(subs[d.event])

\* line 33: the item the iterator yields is read from the list as it is now
next_callback(subs, d) == subs[d.event][d.next]

\* what a callback does when invoked: it returns, it raises, or it calls
\* bus.subscribe and returns
CallbackDoes == {"returns", "raises", "subscribes"}


busVars == <<subscribers, sub_log, published>>

\* the variables of the router and its threads
routerVars ==
    <<auto_reply_enabled, respond_now_requested, respond_to_suggestion_requested,
      last_message, suggested_response, n_calls, result, history, pc, loc, reg, conc>>

(***************************************************************************)
(* CommandHandler (core/command_handler.py).  Names, roles and chat texts  *)
(* are sequences of characters; times and cooldowns are floats in the      *)
(* code, here counted in hundredths of a second.                           *)
(***************************************************************************)
ROLE_EVERYONE == <<"e", "v", "e", "r", "y", "o", "n", "e">>
ROLE_SUBSCRIBER == <<"s", "u", "b", "s", "c", "r", "i", "b", "e", "r">>
ROLE_VIP == <<"v", "i", "p">>
ROLE_MODERATOR == <<"m", "o", "d", "e", "r", "a", "t", "o", "r">>
ROLE_BROADCASTER == <<"b", "r", "o", "a", "d", "c", "a", "s", "t", "e", "r">>

ROLE_ORDER ==
    (ROLE_EVERYONE :> 0) @@ (ROLE_SUBSCRIBER :> 1) @@ (ROLE_VIP :> 2)
        @@ (ROLE_MODERATOR :> 3) @@ (ROLE_BROADCASTER :> 4)

\* dict.get(key, default)
get(d, key, default) == IF key \in DOMAIN d THEN d[key] ELSE default

\* _norm_role: (role or "").strip().lower(), everyone if not a known role
norm_role(role) ==
    LET r == lower(strip(role))
    IN  IF r \in DOMAIN ROLE_ORDER THEN r ELSE ROLE_EVERYONE

\* mutation: the required role itself is not enough
role_allows_strict(user_role, required_role) ==
    LET u == get(ROLE_ORDER, norm_role(user_role), 0)
        req == get(ROLE_ORDER, norm_role(required_role), 0)
    IN  u > req

\* _role_allows
role_allows(user_role, required_role) ==
    LET u == get(ROLE_ORDER, norm_role(user_role), 0)
        req == get(ROLE_ORDER, norm_role(required_role), 0)
    IN  u >= req

\* roles as chat adapters hand them in: exact, padded and capitalised, unknown, None
MODERATOR_RAW == <<" ", "M", "o", "d", "e", "r", "a", "t", "o", "r", " ">>
ADMIN == <<"a", "d", "m", "i", "n">>
Roles == {ROLE_EVERYONE, ROLE_SUBSCRIBER, ROLE_VIP, ROLE_MODERATOR, MODERATOR_RAW,
          ROLE_BROADCASTER, ADMIN, <<>>}

Users == {"alice", "bob"}

\* one second, in the unit of the clock and the cooldowns
Second == 100

\* command names
HELLO == <<"h", "e", "l", "l", "o">>
SO == <<"s", "o">>
LURK == <<"l", "u", "r", "k">>
GHOST == <<"g", "h", "o", "s", "t">>
PING == <<"p", "i", "n", "g">>
HELP == <<"h", "e", "l", "p">>

\* mutation: ping is not registered as a built-in command
built_in_commands_help_only == {HELP}

\* self._built_in_commands (its keys)
built_in_commands == {PING, HELP}

\* commands.json: the entries in file order, each a name and the keys it sets.
\* hello sets only the global cooldown (3 s); so is for moderators, with its own
\* cooldowns; lurk is switched off; ghost has a blank response.
CommandsFile ==
    <<[name |-> <<" ", "!", "H", "e", "l", "l", "o">>,
       cfg |-> [response |-> "Hi {{user}}", cooldown_seconds |-> 3 * Second]],
      [name |-> SO,
       cfg |-> [response |-> "Shoutout {{args}}", permission |-> MODERATOR_RAW,
                cooldown_seconds |-> 4 * Second, user_cooldown_seconds |-> 1 * Second]],
      [name |-> LURK,
       cfg |-> [response |-> "zzz", permission |-> ROLE_BROADCASTER,
                enabled |-> FALSE]],
      [name |-> GHOST,
       cfg |-> [response |-> "", permission |-> ROLE_EVERYONE]]>>

\* str.lstrip("!")
RECURSIVE lstrip_bang(_)
lstrip_bang(s) == IF s # <<>> /\ Head(s) = "!" THEN lstrip_bang(Tail(s)) ELSE s

\* `x or default` for a number: 0 is falsy
or_default(x, default) == IF x = 0 THEN default ELSE x

\* lines 160-167: the CommandDefinition built from one entry
definition(cmd_name, cfg) ==
    [name |-> cmd_name,
     response |-> get(cfg, "response", ""),
     permission |-> norm_role(get(cfg, "permission", ROLE_EVERYONE)),
     cooldown_seconds |-> or_default(get(cfg, "cooldown_seconds", 3 * Second), 3 * Second),
     user_cooldown_seconds |->
         or_default(get(cfg, "user_cooldown_seconds", 10 * Second), 10 * Second),
     enabled |-> get(cfg, "enabled", TRUE)]

\* lines 146-169: the entries are taken in file order; an entry with an empty name
\* or a blank response is skipped, a later entry replaces an earlier one of the
\* same normalised name
RECURSIVE loaded(_, _)
loaded(raw, commands) ==
    IF raw = <<>>
    THEN commands
    ELSE LET cmd_name == lstrip_bang(lower(strip(Head(raw).name)))
             cfg == Head(raw).cfg
         IN  IF cmd_name = <<>> \/ get(cfg, "response", "") = ""
             THEN loaded(Tail(raw), commands)
             ELSE loaded(Tail(raw),
                         [n \in DOMAIN commands \cup {cmd_name} |->
                              IF n = cmd_name THEN definition(cmd_name, cfg)
                              ELSE commands[n]])

\* commands.json after the streamer has edited it: so is switched off
CommandsFileEdited ==
    [i \in 1..Len(CommandsFile) |->
        IF CommandsFile[i].name = SO
        THEN [CommandsFile[i] EXCEPT !.cfg = @ @@ [enabled |-> FALSE]]
        ELSE CommandsFile[i]]

\* what the file may hold when it is read
CommandsFiles == {CommandsFile, CommandsFileEdited}

\* line 134: self._custom_commands = {}
NoCommands == [n \in {} |-> <<>>]

\* reload_custom_commands, lines 133-169
reloaded(raw) == loaded(raw, NoCommands)

\* chat texts: not a command, a bare prefix, hello with padding, capitals and
\* arguments, so with a doubled prefix, a disabled command, one skipped at load
\* (unknown), and a built-in command
T_HI == <<"h", "i">>
T_BANG == <<" ", "!", " ">>
T_HELLO == <<" ", "!", "H", "e", "l", "l", "o", " ", "y", "o", "u">>
T_SO == <<"!", "!", "s", "o">>
T_LURK == <<"!", "l", "u", "r", "k">>
T_GHOST == <<"!", "g", "h", "o", "s", "t">>
T_PING == <<"!", "p", "i", "n", "g">>

\* the calls made by the chat adapter: text, user and the user's role
ChatCalls ==
    [text : {T_HI, T_BANG, T_GHOST, T_PING}, user : {"alice"}, role : {<<>>}]
        \cup [text : {T_LURK}, user : {"bob"}, role : {ROLE_SUBSCRIBER}]
        \cup [text : {T_HELLO}, user : Users, role : {ADMIN}]
        \cup [text : {T_SO}, user : {"alice"},
              role : {ROLE_SUBSCRIBER, ROLE_VIP, MODERATOR_RAW, ROLE_BROADCASTER}]
        \cup [text : {T_SO}, user : {"bob"}, role : {ROLE_BROADCASTER}]

\* commands.json with a command whose two cooldowns are set to 0, and with entries
\* named like the built-in commands: ping switched off, for the broadcaster, with a
\* cooldown; help for moderators
NOW == <<"n", "o", "w">>
CommandsFileZero ==
    <<[name |-> NOW,
       cfg |-> [response |-> "now", cooldown_seconds |-> 0, user_cooldown_seconds |-> 0]],
      [name |-> PING,
       cfg |-> [response |-> "custom pong", permission |-> ROLE_BROADCASTER,
                cooldown_seconds |-> 4 * Second, enabled |-> FALSE]],
      [name |-> HELP,
       cfg |-> [response |-> "custom help", permission |-> ROLE_MODERATOR]]>>

T_NOW == <<"!", "n", "o", "w">>
T_HELP == <<"!", "h", "e", "l", "p">>

\* the calls made while that file is loaded
ZeroCalls ==
    [text : {T_NOW}, user : Users, role : {<<>>}]
        \cup [text : {T_PING}, user : {"alice"}, role : {<<>>, ROLE_BROADCASTER}]
        \cup [text : {T_HELP}, user : {"bob"}, role : {ROLE_SUBSCRIBER}]

\* the part of s before its first blank
RECURSIVE first_word(_)
first_word(s) ==
    IF s = <<>> \/ Head(s) = " " THEN <<>> ELSE <<Head(s)>> \o first_word(Tail(s))

\* _parse_bang_command: '!hello there' -> ('hello', 'there')
parse_bang_command(msg) ==
    LET raw == strip(lstrip_bang(msg))
        word == first_word(raw)
    IN  IF raw = <<>>
        THEN [name |-> <<>>, args |-> <<>>]
        ELSE [name |-> lower(strip(word)),
              args |-> strip(SubSeq(raw, Len(word) + 1, Len(raw)))]

\* max(0.0, x)
max0(x) == IF x > 0 THEN x ELSE 0

\* the two cooldown ledgers: dicts from command, and from (command, user), to the
\* time of the last use
NoLedgers == [global |-> [c \in {} |-> 0], user |-> [k \in {} |-> 0]]

\* mutation: the per-user ledger consulted first
check_cooldowns_user_first(ledgers, cmd, user, now, global_cd, user_cd) ==
    LET last_g == get(ledgers.global, cmd, 0)
        last_u == get(ledgers.user, <<cmd, user>>, 0)
    IN  IF user_cd > 0 /\ (now - last_u) < user_cd
        THEN [ok |-> FALSE, wait |-> max0(user_cd - (now - last_u))]
        ELSE IF global_cd > 0 /\ (now - last_g) < global_cd
        THEN [ok |-> FALSE, wait |-> max0(global_cd - (now - last_g))]
        ELSE [ok |-> TRUE, wait |-> 0]

\* _check_cooldowns
check_cooldowns(ledgers, cmd, user, now, global_cd, user_cd) ==
    LET last_g == get(ledgers.global, cmd, 0)
        last_u == get(ledgers.user, <<cmd, user>>, 0)
    IN  IF global_cd > 0 /\ (now - last_g) < global_cd
        THEN [ok |-> FALSE, wait |-> max0(global_cd - (now - last_g))]
        ELSE IF user_cd > 0 /\ (now - last_u) < user_cd
        THEN [ok |-> FALSE, wait |-> max0(user_cd - (now - last_u))]
        ELSE [ok |-> TRUE, wait |-> 0]

\* dict[key] = value
put(d, key, value) == [k \in DOMAIN d \cup {key} |-> IF k = key THEN value ELSE d[k]]

\* mutation: only the global ledger is stamped
mark_used_global_only(ledgers, cmd, user, now) ==
    [ledgers EXCEPT !.global = put(@, cmd, now)]

\* _mark_used
mark_used(ledgers, cmd, user, now) ==
    [global |-> put(ledgers.global, cmd, now),
     user |-> put(ledgers.user, <<cmd, user>>, now)]

\* mutation: a call rejected by the cooldown gate counts as a use
not_used_marking(ledgers, cmd, user, now) == mark_used(ledgers, cmd, user, now)

\* lines 266-271: the rejected call returns before _mark_used
not_used(ledgers, cmd, user, now) == ledgers

\* mutation: the wait reported as computed
round1_none(wait) == wait

\* round(wait, 1): to the nearest tenth of a second, a tie to the even tenth
round1(wait) ==
    LET q == wait \div 10
        r == wait % 10
    IN  IF r < 5 \/ (r = 5 /\ q % 2 = 0) THEN q * 10 ELSE (q + 1) * 10

\* mutation: the role is checked before the enabled switch
custom_status_role_first(name, role, gate) ==
    IF name \notin DOMAIN custom_commands THEN "unknown_command"
    ELSE IF ~role_allows(norm_role(role), custom_commands[name].permission) THEN "blocked"
    ELSE IF ~custom_commands[name].enabled THEN "disabled"
    ELSE IF ~gate.ok THEN "cooldown"
    ELSE "ok"

\* lines 248-288: the status of a call that names no built-in command
custom_status(name, role, gate) ==
    IF name \notin DOMAIN custom_commands THEN "unknown_command"
    ELSE IF ~custom_commands[name].enabled THEN "disabled"
    ELSE IF ~role_allows(norm_role(role), custom_commands[name].permission) THEN "blocked"
    ELSE IF ~gate.ok THEN "cooldown"
    ELSE "ok"

\* what a call returns and leaves behind; status "None" stands for the None
\* returned for a text that is no command; retry_after is data.retry_after_seconds
Outcome(status, name, retry_after, ledgers) ==
    [status |-> status, name |-> name, retry_after |-> retry_after, ledgers |-> ledgers]

\* handle_chat_message, with the clock reading of line 264 as now
handle_chat_message(ledgers, text, user, role, now) ==
    LET msg == strip(text)
        name == parse_bang_command(msg).name
    IN  IF msg = <<>> \/ Head(msg) # "!" THEN Outcome("None", <<>>, 0, ledgers)
        ELSE IF name = <<>> THEN Outcome("error", name, 0, ledgers)
        ELSE IF name \in built_in_commands THEN Outcome("ok", name, 0, ledgers)
        ELSE LET cmd == custom_commands[name]
                 gate == check_cooldowns(ledgers, name, user, now,
                                         cmd.cooldown_seconds, cmd.user_cooldown_seconds)
                 status == custom_status(name, role, gate)
             IN  IF status = "cooldown"
                 THEN Outcome(status, name, round1(gate.wait),
                              not_used(ledgers, name, user, now))
                 ELSE IF status = "ok"
                 THEN Outcome(status, name, 0, mark_used(ledgers, name, user, now))
                 ELSE Outcome(status, name, 0, ledgers)

\* time.time() when the handler is created; the cooldowns are far smaller
Epoch == 1000000

\* the time that passes between two calls: 1.02 s, 4 s, 10 s
Steps == {Second + 2, 4 * Second, 10 * Second}

\* the record of the last call: its arguments, the clock reading, what was returned,
\* and the ledger entries and cooldowns the gate had before it
NoCommand ==
    [op |-> "init", text |-> <<>>, user |-> "", role |-> <<>>, at |-> 0,
     status |-> "None", name |-> <<>>, retry_after |-> 0,
     last_g |-> 0, last_u |-> 0, gate |-> [ok |-> TRUE, wait |-> 0]]

cmdVars ==
    <<clock, advances, last_used_global, last_used_user, custom_commands, cmd_result>>

\* the two ledgers of the handler as one record
Ledgers == [global |-> last_used_global, user |-> last_used_user]

(***************************************************************************)
(* CommandHandler._render_response.  Templates, user names and argument    *)
(* strings are sequences of characters.                                    *)
(***************************************************************************)
USER_TOKEN == <<"{", "{", "u", "s", "e", "r", "}", "}">>
ARGS_TOKEN == <<"{", "{", "a", "r", "g", "s", "}", "}">>

\* s starts with the characters of old
starts_with(s, old) == Len(s) >= Len(old) /\ SubSeq(s, 1, Len(old)) = old

\* str.replace(old, new) for a non-empty old: the occurrences of old are found from
\* the left, without overlap, and each is replaced by new
RECURSIVE replace(_, _, _)
replace(s, old, new) ==
    IF s = <<>> THEN <<>>
    ELSE IF starts_with(s, old)
    THEN new \o replace(SubSeq(s, Len(old) + 1, Len(s)), old, new)
    ELSE <<Head(s)>> \o replace(Tail(s), old, new)

\* _render_response: two replaces, the second over the output of the first
render_response(template, user, args) ==
    replace(replace(template, USER_TOKEN, user), ARGS_TOKEN, args)

\* response templates of commands.json: the one of the specification, the one of
\* the docstring, each token twice, braces around a token, text that only looks
\* like a token, and a token split by another one
TPL_SHOUTOUT == <<"S", "h", "o", "u", "t", "o", "u", "t", " ", "{", "{", "u", "s", "e", "r", "}", "}", ",", " ", "r", "e", ":", " ", "{", "{", "a", "r", "g", "s", "}", "}">>
TPL_HI == <<"H", "i", " ", "{", "{", "u", "s", "e", "r", "}", "}">>
TPL_BOTH_TWICE == <<"{", "{", "a", "r", "g", "s", "}", "}", "{", "{", "u", "s", "e", "r", "}", "}", "{", "{", "u", "s", "e", "r", "}", "}", "{", "{", "a", "r", "g", "s", "}", "}">>
TPL_BRACES == <<"{", "{", "{", "u", "s", "e", "r", "}", "}", "}">>
TPL_LOOKALIKE == <<"{", "u", "s", "e", "r", "}", " ", "{", "{", " ", "a", "r", "g", "s", " ", "}", "}">>
TPL_SPLIT == <<"{", "{", "{", "{", "u", "s", "e", "r", "}", "}", "a", "r", "g", "s", "}", "}">>
Templates == {TPL_SHOUTOUT, TPL_HI, TPL_BOTH_TWICE, TPL_BRACES, TPL_LOOKALIKE, TPL_SPLIT}

\* user names given by the chat adapter and argument strings typed by the user
U_BOB == <<"b", "o", "b">>
U_ARGS_TOKEN == ARGS_TOKEN
U_USER_TOKEN == USER_TOKEN
RenderUsers == {U_BOB, <<>>, U_ARGS_TOKEN, U_USER_TOKEN}
A_HELLO == <<"h", "e", "l", "l", "o">>
A_BRACES == <<"}", "}", " ", "{", "{">>
RenderArgs == {A_HELLO, <<>>, USER_TOKEN, ARGS_TOKEN, A_BRACES}

\* no template rendered yet
NothingRendered == [op |-> "none", template |-> <<>>, user |-> <<>>, args |-> <<>>, out |-> <<>>]

(***************************************************************************)
(* AIEngine (core/ai_engine.py) and MemoryManager                          *)
(* (core/memory/memory_manager.py).  Messages are sequences of characters. *)
(* The model endpoints are outside the program: a call finds the endpoint  *)
(* in one of the states below.                                             *)
(***************************************************************************)
\* _infer_priority, lines 65-82
high_markers ==
    {<<"r", "e", "m", "e", "m", "b", "e", "r", " ", "t", "h", "i", "s">>,
     <<"d", "o", "n", "'", "t", " ", "f", "o", "r", "g", "e", "t">>,
     <<"i", "m", "p", "o", "r", "t", "a", "n", "t">>,
     <<"m", "y", " ", "s", "c", "h", "e", "d", "u", "l", "e">>,
     <<"m", "e", "d", "i", "c", "a", "l">>,
     <<"e", "m", "e", "r", "g", "e", "n", "c", "y">>,
     <<"p", "a", "s", "s", "w", "o", "r", "d">>,
     <<"l", "o", "g", "i", "n">>}
todo_markers ==
    {<<"r", "e", "m", "i", "n", "d", " ", "m", "e">>,
     <<"i", " ", "n", "e", "e", "d", " ", "t", "o">>,
     <<"i", " ", "h", "a", "v", "e", " ", "t", "o">>,
     <<"i", " ", "m", "u", "s", "t">>,
     <<"t", "o", "d", "o">>,
     <<"t", "a", "s", "k">>}

\* marker in text
contains(text, marker) ==
    \E i \in 1..(Len(text) - Len(marker) + 1) : SubSeq(text, i, i + Len(marker) - 1) = marker

\* the length below which a message without a marker is of low priority
LowBelow == 10

\* _infer_priority
infer_priority(message) ==
    LET text == lower(message)
    IN  IF (\E m \in high_markers : contains(text, m)) \/ (\E m \in todo_markers : contains(text, m))
        THEN "high"
        ELSE IF Len(text) < LowBelow THEN "low"
        ELSE "normal"

\* the public and private methods MemoryManager defines
MemoryManagerMethods ==
    {"_load_long_term", "_append_long_term", "add_memory", "get_recent", "search_long_term"}

\* the memory argument of AIEngine: None or a MemoryManager
Memories == {"None", "MemoryManager"}

\* lines 110-117, the body of the try: self.memory.store_message is looked up on the
\* attached object, and the lookup of a name the object does not define raises
\* AttributeError before anything is called
store_message(memory) ==
    IF memory = "None"
    THEN [tried |-> FALSE, failed |-> FALSE, error |-> "none"]
    ELSE IF "store_message" \in MemoryManagerMethods
    THEN [tried |-> TRUE, failed |-> FALSE, error |-> "none"]
    ELSE [tried |-> TRUE, failed |-> TRUE, error |-> "AttributeError"]

\* mutation: the failure of the memory call leaves process
memory_guard_propagating(attempt) ==
    [raised |-> attempt.failed, logged |-> FALSE]

\* lines 110-119, the try/except around the memory call: a failure is logged
memory_guard(attempt) ==
    [raised |-> FALSE, logged |-> attempt.failed]

\* what the local endpoint does when called: LOCAL_LLM_ENDPOINT is not set; it
\* answers with text; with text of blanks only; without choices or content; with an
\* HTTP error; with a body that is no JSON object; not within 30 s
LocalStates == {"unset", "text", "blank", "no_choices", "http_error", "malformed", "timeout"}

\* the states in which the endpoint is unavailable or fails
EndpointFailures == {"unset", "no_choices", "http_error", "malformed", "timeout"}

\* what the hosted API does when called
OnlineStates == {"text", "blank", "no_choices", "http_error", "exception"}

\* a reply: generated by a model or the stub text, empty ("") or not; the stub
\* text quotes the trimmed message
NoReply == [kind |-> "none", via |-> "none", empty |-> TRUE, quoted |-> <<>>]

\* lines 224-234: the stub
stub(message) ==
    IF strip(message) = <<>>
    THEN [kind |-> "stub", via |-> "stub", empty |-> FALSE, quoted |-> <<>>]
    ELSE [kind |-> "stub", via |-> "stub", empty |-> FALSE, quoted |-> strip(message)]

\* _call_offline: the text of the local model, stripped, or the stub
call_offline(message, local) ==
    IF local = "text" THEN [kind |-> "model", via |-> "local", empty |-> FALSE, quoted |-> <<>>]
    ELSE IF local = "blank" THEN [kind |-> "model", via |-> "local", empty |-> TRUE, quoted |-> <<>>]
    ELSE stub(message)

\* _call_online: the text of the hosted model, stripped, or _call_offline
call_online(message, backend) ==
    IF ~backend.api_key THEN call_offline(message, backend.local)
    ELSE IF backend.openai = "text"
    THEN [kind |-> "model", via |-> "openai", empty |-> FALSE, quoted |-> <<>>]
    ELSE IF backend.openai = "blank"
    THEN [kind |-> "model", via |-> "openai", empty |-> TRUE, quoted |-> <<>>]
    ELSE call_offline(message, backend.local)

\* the settings and endpoints a call of process finds: everything offline, and the
\* online path with and without key and with each answer of the hosted API
Backends ==
    [online_enabled : {FALSE}, api_key : {FALSE}, openai : {"text"}, local : LocalStates]
        \cup [online_enabled : {TRUE}, api_key : {FALSE}, openai : {"text"},
              local : {"unset", "text"}]
        \cup [online_enabled : {TRUE}, api_key : {TRUE}, openai : OnlineStates,
              local : {"unset"}]

\* the engines built: AIEngine(bus, memory, offline_only); main.py attaches a
\* MemoryManager and leaves offline_only to the settings
Engines ==
    [memory : Memories, offline_only : {TRUE}]
        \cup [memory : {"MemoryManager"}, offline_only : {FALSE}]

\* mutation: the engine's offline_only switch is not consulted
online_path_by_settings(engine, backend) == backend.online_enabled

\* lines 135-146: _call_online is tried unless the engine is offline-only or
\* settings.ONLINE_FEATURES_ENABLED is false
online_path(engine, backend) == ~(engine.offline_only \/ ~backend.online_enabled)

\* lines 241-276: on the online path the hosted API is posted to when
\* OPENAI_API_KEY is set
api_called(engine, backend) == online_path(engine, backend) /\ backend.api_key

\* the answers of the hosted API that _call_online treats as a failure
OnlineFailures == {"no_choices", "http_error", "exception"}

\* process: what it returns, what it published and what happened on the way
process(engine, message, backend) ==
    LET priority == infer_priority(message)
        attempt == store_message(engine.memory)
        guard == memory_guard(attempt)
        reply == IF ~online_path(engine, backend)
                 THEN call_offline(message, backend.local)
                 ELSE call_online(message, backend)
    IN  IF guard.raised
        THEN [raised |-> TRUE, priority |-> priority, attempt |-> attempt, logged |-> FALSE,
              events |-> <<>>, backend_called |-> FALSE, reply |-> NoReply]
        ELSE [raised |-> FALSE, priority |-> priority, attempt |-> attempt,
              logged |-> guard.logged,
              events |-> <<[event |-> "ai.message_received", priority |-> priority,
                            reply |-> NoReply],
                           [event |-> "ai.message_replied", priority |-> priority,
                            reply |-> reply]>>,
              backend_called |-> TRUE, reply |-> reply]

\* messages handed to process
M_HI == <<"h", "i">>
M_BLANK == <<" ", " ", " ">>
M_WEATHER == <<"w", "h", "a", "t", " ", "i", "s", " ", "t", "h", "e", " ", "w", "e", "a", "t", "h", "e", "r">>
M_REMEMBER == <<"R", "e", "m", "e", "m", "b", "e", "r", " ", "t", "h", "i", "s", ":", " ", "m", "i", "l", "k">>
M_TODO == <<"T", "O", "D", "O", " ", "l", "i", "s", "t">>
EngineMessages == {M_HI, M_BLANK, M_WEATHER, M_REMEMBER, M_TODO}

\* MemoryManager(max_short_term): the length the short-term list is cut to
max_short_term == 2

\* add_memory, lines 67-94: the item goes to the end of the short-term list, the
\* oldest item is dropped beyond max_short_term, and with persist the item is
\* written to the end of the file unless the write fails (logged, line 63)
add_memory(store, text, metadata, disk) ==
    LET item == [id |-> store.created + 1, text |-> text, metadata |-> metadata]
        longer == Append(store.short_term, item)
    IN  [short_term |-> IF Len(longer) > max_short_term THEN Tail(longer) ELSE longer,
         long_term |-> IF disk = "written" THEN Append(store.long_term, item)
                       ELSE store.long_term,
         created |-> store.created + 1]

\* persist=False; persist=True and the write succeeds; persist=True and it fails
Disks == {"not persisted", "written", "write failed"}

\* the metadata given to add_memory
Metadatas == {[source |-> "self_test"]}

\* the record of the last operation on the engine or the store
NoProcess ==
    [op |-> "init", memory |-> "None", message |-> <<>>, raised |-> FALSE, priority |-> "none",
     attempt |-> store_message("None"), logged |-> FALSE, events |-> <<>>,
     backend_called |-> FALSE, reply |-> NoReply]

\* the variables of the engine and the memory store
\* the settings and endpoints of the runs that look at the choice of the path: those
\* above, and a failing hosted API with a local model that answers
ModeBackends ==
    Backends \cup [online_enabled : {TRUE}, api_key : {TRUE},
                   openai : {"http_error", "exception"}, local : {"text"}]

\* the record of the last run: the engine's switch, what the run found, whether the
\* hosted API was posted to, and what process returned
NoModeRun ==
    [op |-> "init", offline_only |-> TRUE, backend |-> [online_enabled |-> FALSE,
     api_key |-> FALSE, openai |-> "text", local |-> "unset"], message |-> <<>>,
     online_path |-> FALSE, api_called |-> FALSE, raised |-> FALSE, reply |-> NoReply]

engineVars == <<short_term, long_term, created, engine_result>>

\* the memory store as one record
Store == [short_term |-> short_term, long_term |-> long_term, created |-> created]

(***************************************************************************)
(* The orchestrator (core/main.py): the callbacks main() subscribes to the *)
(* bus.  The engine is the one build_engine makes: an AIEngine with a      *)
(* MemoryManager, offline unless the settings say otherwise; the text      *)
(* handed to tts.speak is recorded with the run of the handler.            *)
(***************************************************************************)
\* the data published with voice.transcribed: None, a dict without text, a dict
\* whose text is an int or None, and dicts whose text is a string
D_NONE == [kind |-> "None", has_text |-> FALSE, type |-> "none", chars |-> <<>>]
D_NOTEXT == [kind |-> "dict", has_text |-> FALSE, type |-> "none", chars |-> <<>>]
D_INT == [kind |-> "dict", has_text |-> TRUE, type |-> "int", chars |-> <<>>]
D_NULL == [kind |-> "dict", has_text |-> TRUE, type |-> "NoneType", chars |-> <<>>]
D_BLANK == [kind |-> "dict", has_text |-> TRUE, type |-> "str", chars |-> <<" ", " ">>]
D_HELLO == [kind |-> "dict", has_text |-> TRUE, type |-> "str", chars |-> <<" ", "h", "e", "l", "l", "o", " ">>]
D_WHAT == [kind |-> "dict", has_text |-> TRUE, type |-> "str", chars |-> <<"w", "h", "a", "t", " ", "n", "o", "w">>]
Datas == {D_NONE, D_NOTEXT, D_INT, D_NULL, D_BLANK, D_HELLO, D_WHAT}

\* lines 109-110: payload = data or {}; text = payload.get("text", "")
payload_text(data) ==
    IF data.kind = "None" \/ ~data.has_text
    THEN [type |-> "str", chars |-> <<>>]
    ELSE [type |-> data.type, chars |-> data.chars]

\* mutation: the text taken for a string whatever it is
isinstance_str_any(text) == TRUE

\* line 112: isinstance(text, str)
isinstance_str(text) == text.type = "str"

\* lines 134-138: the message registered for a spoken text
voice_message(text) ==
    [kind |-> "dict", user |-> "voice", text |-> text, source |-> VOICE_INPUT]

\* the beginning of every prompt _build_prompt makes: a prompt is never blank
PROMPT_HEAD == <<"Y", "o", "u", " ", "a", "r", "e">>

\* the engine of main(): build_engine attaches a MemoryManager; OFFLINE_ONLY is
\* on unless the environment says otherwise
MainEngine == [memory |-> "MemoryManager", offline_only |-> TRUE]

\* a run of engine.process finds the local endpoint in one of its states ("raise"
\* is an error raised inside process outside its guarded calls); the backend seen
\* by a run
backend_of(run) ==
    [online_enabled |-> FALSE, api_key |-> FALSE, openai |-> "text", local |-> run]

\* the reply engine.process returns in a run that returns
reply_of(run) == process(MainEngine, PROMPT_HEAD, backend_of(run)).reply

\* the run as the router sees it: a text, an empty text or an exception
outcome_of(run) ==
    IF run = "raise" THEN "raise"
    ELSE IF reply_of(run).empty THEN "empty"
    ELSE "text"

\* the fallback sentence of lines 120-123
FALLBACK == [kind |-> "fallback", id |-> 0, empty |-> FALSE, prompt |-> NoPrompt]

\* mutation: whatever route_intent returned is spoken
spoken_after_any(ret) == <<ret>>

\* lines 151-158: `if final_reply:` speaks a non-empty text and nothing else
spoken_after(ret) ==
    IF ret.kind = "str" /\ ~ret.empty THEN <<ret>> ELSE <<>>

\* what a run of the handler did
Handled(self, n, did_register, routed, r, spoken) ==
    [self |-> self, n_calls |-> n, registered |-> did_register, routed |-> routed,
     calls |-> r.calls, ret |-> r.ret, raised |-> r.raised, spoken |-> spoken,
     escaped |-> FALSE]

\* no route_intent call made
NoRoute == [calls |-> <<>>, ret |-> NoneVal, raised |-> FALSE]

\* handle_voice_transcribed, lines 108-158
handle_voice_transcribed(self, n, data, run1, run2) ==
    LET text == payload_text(data)
        stripped == strip(text.chars)
        after == registered(self, voice_message(stripped))
        r == route_intent(after, "", n + 1, outcome_of(run1), outcome_of(run2))
    IN  IF ~isinstance_str(text) THEN Handled(self, n, FALSE, FALSE, NoRoute, <<>>)
        ELSE IF stripped = <<>> THEN Handled(self, n, FALSE, FALSE, NoRoute, <<FALLBACK>>)
        ELSE IF r.raised
        THEN Handled(r.self, n + Len(r.calls), TRUE, TRUE, r, <<>>)
        ELSE Handled(r.self, n + Len(r.calls), TRUE, TRUE, r, spoken_after(r.ret))

\* the runs of the draft call and the verify call of one route_intent: both return
\* a text; one returns blanks; one raises; the endpoint is unavailable or fails in
\* one call or in both
RunPairs ==
    {<<"text", "text">>, <<"text", "blank">>, <<"blank", "text">>,
     <<"raise", "text">>, <<"text", "raise">>,
     <<"unset", "unset">>, <<"timeout", "text">>, <<"text", "timeout">>,
     <<"http_error", "text">>, <<"text", "http_error">>,
     <<"malformed", "malformed">>, <<"no_choices", "text">>, <<"text", "no_choices">>}

\* the voice.transcribed events handled: the data, the runs of the engine when the
\* text is routed, and whether tts.speak raises when it is called
VoiceEvents ==
    [data : {D_HELLO, D_WHAT}, runs : RunPairs, speak_fails : BOOLEAN]
        \cup [data : {D_NONE, D_NOTEXT, D_BLANK}, runs : {<<"text", "text">>},
              speak_fails : BOOLEAN]
        \cup [data : {D_INT, D_NULL}, runs : {<<"text", "text">>}, speak_fails : {FALSE}]

\* the data published with ui.auto_reply.set
EnabledDatas == {[kind |-> "None", enabled |-> FALSE], [kind |-> "dict", enabled |-> TRUE],
                 [kind |-> "dict", enabled |-> FALSE]}

\* the record of the last callback run
NothingHandled ==
    [op |-> "init", data |-> D_NONE, run1 |-> "text", run2 |-> "text",
     registered |-> FALSE, routed |-> FALSE, calls |-> <<>>, ret |-> NoneVal,
     raised |-> FALSE, spoken |-> <<>>, speak_failed |-> FALSE, escaped |-> FALSE]

\* the variable of the orchestrator
mainVars == <<main_result>>

(***************************************************************************)
(* The threads of voice capture (core/hotkeys.py, core/io/speech/          *)
(* listener.py).  The hotkey thread runs the callbacks of the keyboard     *)
(* hooks one after the other: _on_listen_toggle publishes                  *)
(* voice.listen_toggle, and the bus runs VoiceListener._handle_toggle on   *)
(* that same thread.  start_recording starts a recorder thread, which      *)
(* records, transcribes, publishes voice.transcribed and so runs main's    *)
(* handle_voice_transcribed, route_intent and both backend calls itself.   *)
(* A `with self._lock:` block does not wait inside and is one step.        *)
(***************************************************************************)
\* the recorder threads, in the order in which start_recording creates them
Recorders == 1..MaxRecorders

\* self._worker = None
NoWorker == 0

\* VoiceListener.__init__, lines 63-67
ListenerInit == [is_recording |-> FALSE, stop_event |-> FALSE, worker |-> NoWorker]

\* the hotkey thread: where it is, HotkeyListener._listening, the local variable
\* worker of stop_recording, and the F12 presses handled so far
HotkeyInit == [pc |-> "idle", listening |-> FALSE, worker |-> NoWorker, presses |-> 0]

\* a recorder thread exists from Thread.start() until _record_worker returns
is_alive(recorders, w) == w # NoWorker /\ recorders[w] \notin {"unborn", "dead"}

\* the recorder is inside a backend call of route_intent
in_backend_call(recorders, w) == recorders[w] \in {"draft call", "verify call"}

\* the text the listener publishes with voice.transcribed
SPOKEN_TEXT == <<"h", "e", "l", "l", "o">>

\* the variables of the capture threads
listenerVars == <<hotkey, listener, recorder>>

(***************************************************************************)
(* LocalTTS (core/io/speech/tts_local.py): speak puts a text on a queue,   *)
(* the one worker thread started by __init__ takes the texts off the queue *)
(* and speaks them one after the other, wait_until_done polls the queue    *)
(* and the speaking flag from the caller's thread.                         *)
(***************************************************************************)
\* the None that stop() puts on the queue
STOP_ITEM == <<"N", "o", "n", "e", "!">>

\* the texts handed to speak: None, blanks, and two texts with words
SAY_NONE == [kind |-> "None", chars |-> <<>>]
SAY_BLANK == [kind |-> "str", chars |-> <<" ">>]
SAY_HI == [kind |-> "str", chars |-> <<"h", "i">>]
SAY_OK == [kind |-> "str", chars |-> <<" ", "o", "k", " ">>]
SpeakTexts == {SAY_NONE, SAY_BLANK, SAY_HI, SAY_OK}

\* lines 49-53: what speak puts on the queue, <<>> for nothing
enqueued_text(text) == IF text.kind = "None" THEN <<>> ELSE strip(text.chars)

\* mutation: a failed utterance ends the worker thread
after_speak_error_exit(failed) == IF failed THEN "exited" ELSE "l110"

\* lines 120-125: after _speak_once, failed or not, the loop goes on
after_speak_error(failed) == "l110"

\* __init__, lines 26-33: empty queue, nothing being spoken, the worker at the top
\* of its loop; said: the texts put on the queue so far; attempts: the utterances
\* _speak_once has finished with, in order, and whether each failed
TTSInit ==
    [q |-> <<>>, stop_event |-> FALSE, is_speaking |-> FALSE, pc |-> "l110",
     item |-> <<>>, said |-> <<>>, attempts |-> <<>>]

\* the thread that calls wait_until_done: where it is, how many texts had been put
\* on the queue when it called (upto), and what the call returned
WaiterIdle == [pc |-> "idle", upto |-> 0, ret |-> "none"]

ttsVars == <<tts, waiter>>

(***************************************************************************)
(* Vision watch mode (core/io/vision.py) and its hotkey (core/hotkeys.py): *)
(* the module fields _watch_enabled, _watch_stop and _watch_thread, the    *)
(* loop threads started so far, and the hotkey thread inside the handler   *)
(* of Ctrl+Shift+F8.                                                       *)
(***************************************************************************)
\* _watch_thread = None
NoThread == 0

\* vision.py, lines 93-97; alive: the loop threads that have not returned;
\* started: how many were created; cycles: the snapshots taken
WatchInit ==
    [watch_enabled |-> FALSE, watch_stop |-> FALSE, watch_thread |-> NoThread,
     alive |-> {}, started |-> 0, cycles |-> 0]

\* the hotkey thread: not in the handler
ToggleIdle == [pc |-> "idle", enabled |-> FALSE, presses |-> 0]

\* _watch_thread and _watch_thread.is_alive()
thread_alive(w) == w.watch_thread # NoThread /\ w.watch_thread \in w.alive

\* is_watching, lines 357-360
is_watching(w) == thread_alive(w) /\ w.watch_enabled

\* stop_watch, lines 347-354
stop_watch(w) == [w EXCEPT !.watch_enabled = FALSE, !.watch_stop = TRUE]

\* start_watch, lines 323-342: nothing is done while the previous thread is alive
start_watch(w) ==
    IF thread_alive(w)
    THEN w
    ELSE [w EXCEPT !.watch_enabled = TRUE, !.watch_stop = FALSE,
                   !.watch_thread = w.started + 1,
                   !.alive = @ \cup {w.started + 1},
                   !.started = @ + 1]

visionVars == <<watch, toggle>>

(***************************************************************************)
(* Hands (core/io/hands.py): gated keyboard, mouse and app launching.      *)
(* A Python value is a record of its type and content; an action is a dict *)
(* of such values, or something that is not a dict.                        *)
(***************************************************************************)
PyStr(chars) == [type |-> "str", b |-> FALSE, chars |-> chars, n |-> 0]
PyBool(b) == [type |-> "bool", b |-> b, chars |-> <<>>, n |-> 0]
PyInt(n) == [type |-> "int", b |-> FALSE, chars |-> <<>>, n |-> n]
NoneValue == [type |-> "NoneType", b |-> FALSE, chars |-> <<>>, n |-> 0]

\* bool(v)
py_bool(v) ==
    CASE v.type = "bool" -> v.b
      [] v.type = "str" -> v.chars # <<>>
      [] v.type = "int" -> v.n # 0
      [] OTHER -> FALSE

\* str(v), for the values of the actions below
py_str(v) ==
    CASE v.type = "str" -> v.chars
      [] v.type = "bool" -> IF v.b THEN <<"T", "r", "u", "e">> ELSE <<"F", "a", "l", "s", "e">>
      [] v.type = "int" -> IF v.n = 0 THEN <<"0">> ELSE <<"1">>
      [] OTHER -> <<"N", "o", "n", "e">>

OPEN_APP == <<"o", "p", "e", "n", "_", "a", "p", "p">>
TYPE_TEXT == <<"t", "y", "p", "e", "_", "t", "e", "x", "t">>
KEY_COMBO == <<"k", "e", "y", "_", "c", "o", "m", "b", "o">>
CLICK == <<"c", "l", "i", "c", "k">>
MOVE_MOUSE == <<"m", "o", "v", "e", "_", "m", "o", "u", "s", "e">>
CLOSE_WINDOW == <<"c", "l", "o", "s", "e", "_", "w", "i", "n", "d", "o", "w">>
NOTEPAD == <<"n", "o", "t", "e", "p", "a", "d">>
CALC == <<"c", "a", "l", "c">>
EXPLORER == <<"e", "x", "p", "l", "o", "r", "e", "r">>
MSPAINT == <<"m", "s", "p", "a", "i", "n", "t">>
CMD == <<"c", "m", "d">>

\* HandsConfig.allow_apps, line 156
allow_apps == {NOTEPAD, EXPLORER, CALC, MSPAINT, CMD}

\* the action dicts handed to execute
Dict(items) == [kind |-> "dict", items |-> items]
NOT_A_DICT == [kind |-> "list", items |-> <<>>]
A_NO_TYPE == Dict("app" :> PyStr(NOTEPAD))
A_OPEN_NOTEPAD == Dict("type" :> PyStr(<<" ", "O", "p", "e", "n", "_", "A", "p", "p", " ">>) @@ "app" :> PyStr(<<" ", "N", "o", "t", "e", "p", "a", "d", " ">>))
A_OPEN_POWERSHELL == Dict("type" :> PyStr(OPEN_APP) @@ "app" :> PyStr(<<"p", "o", "w", "e", "r", "s", "h", "e", "l", "l">>))
A_OPEN_NOTHING == Dict("type" :> PyStr(OPEN_APP))
A_TYPE_HI == Dict("type" :> PyStr(TYPE_TEXT) @@ "text" :> PyStr(<<"h", "i">>))
A_TYPE_NUMBER == Dict("type" :> PyStr(TYPE_TEXT) @@ "text" :> PyInt(1))
A_KEYS == Dict("type" :> PyStr(KEY_COMBO) @@ "keys" :> PyStr(<<"C", "t", "r", "l", "+", "S">>))
A_CLICK == Dict("type" :> PyStr(CLICK) @@ "x" :> PyInt(1) @@ "y" :> PyInt(1))
A_CLICK_BUTTON == Dict("type" :> PyStr(CLICK) @@ "x" :> PyInt(1) @@ "y" :> PyInt(1) @@ "button" :> PyStr(<<"f", "o", "u", "r", "t", "h">>))
A_MOVE == Dict("type" :> PyStr(MOVE_MOUSE) @@ "x" :> PyInt(1) @@ "y" :> PyInt(0))
A_MOVE_NOWHERE == Dict("type" :> PyStr(MOVE_MOUSE) @@ "x" :> PyStr(<<"1">>) @@ "y" :> PyInt(0))
A_CLOSE == Dict("type" :> PyStr(CLOSE_WINDOW))
A_CLOSE_CONFIRMED == Dict("type" :> PyStr(CLOSE_WINDOW) @@ "confirm" :> PyBool(TRUE) @@ "delay_ms" :> PyInt(0))
A_CLOSE_DENIED == Dict("type" :> PyStr(CLOSE_WINDOW) @@ "confirm" :> PyBool(FALSE))
A_CLOSE_SAYS_FALSE == Dict("type" :> PyStr(CLOSE_WINDOW) @@ "confirm" :> PyStr(<<"f", "a", "l", "s", "e">>))
A_SHELL == Dict("type" :> PyStr(<<"s", "h", "e", "l", "l">>) @@ "cmd" :> PyStr(<<"d", "i", "r">>))
HandsActions ==
    {NOT_A_DICT, A_NO_TYPE, A_OPEN_NOTEPAD, A_OPEN_POWERSHELL, A_OPEN_NOTHING, A_TYPE_HI,
     A_TYPE_NUMBER, A_KEYS, A_CLICK, A_CLICK_BUTTON, A_MOVE, A_MOVE_NOWHERE, A_CLOSE,
     A_CLOSE_CONFIRMED, A_CLOSE_DENIED, A_CLOSE_SAYS_FALSE, A_SHELL}

\* what the machine offers when an action runs: pyautogui and keyboard installed
\* or not, the foreground window one of guarded_close_processes or not
HandsEnvs == [pyautogui : BOOLEAN, keyboard : BOOLEAN, guarded : BOOLEAN]

\* an implementation raises HandsError, performs one call of a backend, or, in a
\* dry run, returns without one
refused == [error |-> TRUE, performed |-> <<>>]
dry_run_only == [error |-> FALSE, performed |-> <<>>]
performs(call, arg) == [error |-> FALSE, performed |-> <<[call |-> call, arg |-> arg]>>]

\* _open_app, lines 277-302
open_app(h, items) ==
    LET app == lower(strip(py_str(get(items, "app", PyStr(<<>>)))))
    IN  IF app = <<>> THEN refused
        ELSE IF app \notin allow_apps THEN refused
        ELSE IF h.dry_run THEN dry_run_only
        ELSE performs("subprocess.Popen", app)

\* _type_text, lines 304-319
type_text(h, items, env) ==
    LET text == get(items, "text", NoneValue)
    IN  IF text.type # "str" \/ text.chars = <<>> THEN refused
        ELSE IF h.dry_run THEN dry_run_only
        ELSE IF ~env.pyautogui THEN refused
        ELSE performs("pyautogui.typewrite", text.chars)

\* _key_combo, lines 321-344
key_combo(h, items, env) ==
    LET keys == lower(strip(py_str(get(items, "keys", PyStr(<<>>)))))
    IN  IF keys = <<>> THEN refused
        ELSE IF h.dry_run THEN dry_run_only
        ELSE IF env.keyboard THEN performs("keyboard.send", keys)
        ELSE IF ~env.pyautogui THEN refused
        ELSE performs("pyautogui.hotkey", keys)

\* isinstance(x, int) and isinstance(y, int)
integer_xy(items) ==
    get(items, "x", NoneValue).type \in {"int", "bool"}
        /\ get(items, "y", NoneValue).type \in {"int", "bool"}

\* _click, lines 346-365
click(h, items, env) ==
    LET button == lower(strip(py_str(get(items, "button", PyStr(<<"l", "e", "f", "t">>)))))
    IN  IF ~integer_xy(items) THEN refused
        ELSE IF button \notin {<<"l", "e", "f", "t">>, <<"r", "i", "g", "h", "t">>, <<"m", "i", "d", "d", "l", "e">>} THEN refused
        ELSE IF h.dry_run THEN dry_run_only
        ELSE IF ~env.pyautogui THEN refused
        ELSE performs("pyautogui.click", button)

\* _move_mouse, lines 367-393
move_mouse(h, items, env) ==
    IF ~integer_xy(items) THEN refused
    ELSE IF h.dry_run THEN dry_run_only
    ELSE IF ~env.pyautogui THEN refused
    ELSE performs("pyautogui.moveTo", <<>>)

\* _close_window, lines 395-445
close_window(h, items, env) ==
    IF ~py_bool(get(items, "confirm", PyBool(FALSE))) THEN refused
    ELSE IF h.dry_run THEN dry_run_only
    ELSE IF env.guarded THEN refused
    ELSE IF env.keyboard THEN performs("keyboard.send", <<"a", "l", "t", "+", "f", "4">>)
    ELSE IF ~env.pyautogui THEN refused
    ELSE performs("pyautogui.hotkey", <<"a", "l", "t", "+", "f", "4">>)

\* lines 239-241: str(action.get("type", "")).strip().lower()
action_type(action) == lower(strip(py_str(get(action.items, "type", PyStr(<<>>)))))

\* execute, lines 251-266: the gate, then the implementation of the type
dispatch_action(h, a_type, items, env) ==
    IF ~h.enabled THEN refused
    ELSE CASE a_type = OPEN_APP -> open_app(h, items)
           [] a_type = TYPE_TEXT -> type_text(h, items, env)
           [] a_type = KEY_COMBO -> key_combo(h, items, env)
           [] a_type = CLICK -> click(h, items, env)
           [] a_type = MOVE_MOUSE -> move_mouse(h, items, env)
           [] a_type = CLOSE_WINDOW -> close_window(h, items, env)
           [] OTHER -> refused

\* execute, lines 225-273: whether HandsError is raised, the backend calls made and
\* the records appended to logs/actions.log
execute(h, action, env) ==
    IF action.kind # "dict" THEN [raised |-> TRUE, performed |-> <<>>, audit |-> <<>>]
    ELSE IF action_type(action) = <<>>
    THEN [raised |-> TRUE, performed |-> <<>>, audit |-> <<>>]
    ELSE LET r == dispatch_action(h, action_type(action), action.items, env)
         IN  [raised |-> r.error, performed |-> r.performed,
              audit |-> <<[type |-> action_type(action), dry_run |-> h.dry_run,
                           ok |-> ~r.error]>>]

\* before the first call of execute
NoExecute ==
    [called |-> FALSE, action |-> NOT_A_DICT, enabled |-> FALSE, dry_run |-> FALSE,
     raised |-> FALSE, performed |-> <<>>, audit |-> <<>>]

\* Hands.__init__, lines 183-186, with neither environment variable set: disabled,
\* no dry run; audit: the records of logs/actions.log; done: the backend calls made
HandsInit ==
    [enabled |-> FALSE, dry_run |-> FALSE, audit |-> <<>>, done |-> <<>>, calls |-> 0,
     last |-> NoExecute]

\* the variable of the renderer
renderVars == <<rendered>>

\* the variables outside the command handler
\* the variables of the engine's switches and of the devices
peripheralVars == <<mode_result, tts, waiter, watch, toggle, hands>>

outsideCommands ==
    <<routerVars, busVars, renderVars, engineVars, mainVars, listenerVars, stale, dispatch,
      peripheralVars>>

\* the variables outside the router and its threads
outsideRouter ==
    <<busVars, cmdVars, renderVars, engineVars, mainVars, listenerVars, dispatch,
      peripheralVars>>

\* the variables outside the bus
outsideBus ==
    <<routerVars, cmdVars, renderVars, engineVars, mainVars, listenerVars, stale, dispatch,
      peripheralVars>>

\* the variables outside the renderer
outsideRender ==
    <<routerVars, busVars, cmdVars, engineVars, mainVars, listenerVars, stale, dispatch,
      peripheralVars>>

\* the variables outside the engine and the memory store
outsideEngine ==
    <<routerVars, busVars, cmdVars, renderVars, mainVars, listenerVars, stale, dispatch,
      peripheralVars>>

\* the variables the orchestrator's callbacks leave alone
outsideMain ==
    <<result, history, stale, concVars, busVars, cmdVars, renderVars, engineVars,
      listenerVars, dispatch,
      peripheralVars>>

\* the variables the capture threads leave alone; the recorder registers the spoken
\* text with the router
outsideListener ==
    <<auto_reply_enabled, respond_now_requested, respond_to_suggestion_requested, n_calls,
      result, history, stale, concVars, busVars, cmdVars, renderVars, engineVars, mainVars,
      dispatch,
      peripheralVars>>

\* the variables a publish call under way leaves alone
outsideDispatch ==
    <<published, routerVars, cmdVars, renderVars, engineVars, mainVars, listenerVars, stale,
      peripheralVars>>

(***************************************************************************)
(* Operations, one call at a time.                                         *)
(***************************************************************************)
Init ==
    /\ auto_reply_enabled = FALSE
    /\ respond_now_requested = FALSE
    /\ respond_to_suggestion_requested = FALSE
    /\ last_message = NoneMsg
    /\ suggested_response = NoSuggestion
    /\ n_calls = 0
    /\ result = Plain("init", NoneMsg)
    /\ history = HistoryInit
    /\ pc = [w \in Workers |-> "idle"]
    /\ loc = [w \in Workers |-> LocIdle]
    /\ reg = RegIdle
    /\ conc = ConcInit
    /\ subscribers = NoSubscribers
    /\ sub_log = <<>>
    /\ published = NothingPublished
    /\ clock = Epoch
    /\ advances = 0
    /\ last_used_global = NoLedgers.global
    /\ last_used_user = NoLedgers.user
    /\ custom_commands = reloaded(CommandsFile)
    /\ cmd_result = NoCommand
    /\ rendered = NothingRendered
    /\ short_term = <<>>
    /\ long_term = <<>>
    /\ created = 0
    /\ engine_result = NoProcess
    /\ main_result = NothingHandled
    /\ hotkey = HotkeyInit
    /\ listener = ListenerInit
    /\ recorder = [w \in Recorders |-> "unborn"]
    /\ stale = StaleInit
    /\ dispatch = NoPublish
    /\ mode_result = NoModeRun
    /\ tts = TTSInit
    /\ waiter = WaiterIdle
    /\ watch = WatchInit
    /\ toggle = ToggleIdle
    /\ hands = HandsInit

set_auto_reply(enabled) ==
    /\ auto_reply_enabled' = enabled
    /\ result' = Plain("set_auto_reply", NoneMsg)
    /\ history' = AfterSetAutoReply(history)
    /\ UNCHANGED stale
    /\ UNCHANGED <<concVars, outsideRouter>>
    /\ UNCHANGED <<respond_now_requested, respond_to_suggestion_requested,
                   last_message, suggested_response, n_calls>>

trigger_respond_now ==
    /\ respond_now_requested' = TRUE
    /\ result' = Plain("trigger_respond_now", NoneMsg)
    /\ history' = AfterTriggerNow(history)
    /\ stale' = [stale EXCEPT !.now = FALSE]
    /\ UNCHANGED <<concVars, outsideRouter>>
    /\ UNCHANGED <<auto_reply_enabled, respond_to_suggestion_requested,
                   last_message, suggested_response, n_calls>>

trigger_respond_to_suggestion ==
    /\ respond_to_suggestion_requested' = TRUE
    /\ result' = Plain("trigger_respond_to_suggestion", NoneMsg)
    /\ history' = AfterTriggerSuggestion(history)
    /\ stale' = [stale EXCEPT !.sug = FALSE]
    /\ UNCHANGED <<concVars, outsideRouter>>
    /\ UNCHANGED <<auto_reply_enabled, respond_now_requested,
                   last_message, suggested_response, n_calls>>

register_message(message) ==
    LET s == registered(Self, message)
    IN  /\ last_message' = s.last_message
        /\ suggested_response' = s.suggested_response
        /\ result' = Plain("register_message", message)
        /\ history' = AfterRegister(history, Self)
        /\ stale' = StaleAfterRegister(Self)
        /\ UNCHANGED <<concVars, outsideRouter>>
        /\ UNCHANGED <<auto_reply_enabled, respond_now_requested,
                       respond_to_suggestion_requested, n_calls>>

RouteIntent(vision_description, o1, o2) ==
    /\ n_calls + 2 <= MaxCalls
    /\ LET r == route_intent(Self, vision_description, n_calls + 1, o1, o2)
       IN  /\ auto_reply_enabled' = r.self.auto_reply_enabled
           /\ respond_now_requested' = r.self.respond_now_requested
           /\ respond_to_suggestion_requested' = r.self.respond_to_suggestion_requested
           /\ last_message' = r.self.last_message
           /\ suggested_response' = r.self.suggested_response
           /\ n_calls' = n_calls + Len(r.calls)
           /\ result' = [op |-> "route_intent", arg |-> NoneMsg, pre |-> Self,
                         vision |-> vision_description, calls |-> r.calls,
                         ret |-> r.ret, raised |-> r.raised]
           /\ history' = AfterRoute(history, Self, r)
           /\ stale' = StaleAfterRoute(stale, r.self)
           /\ UNCHANGED <<concVars, outsideRouter>>

vars ==
    <<auto_reply_enabled, respond_now_requested, respond_to_suggestion_requested,
      last_message, suggested_response, n_calls, result, history,
      pc, loc, reg, conc, subscribers, sub_log, published,
      clock, advances, last_used_global, last_used_user,
      custom_commands, cmd_result,
      rendered,
      short_term,
      long_term,
      created,
      engine_result,
      main_result,
      hotkey,
      listener,
      recorder,
      stale,
      dispatch,
      mode_result,
      tts,
      waiter,
      watch,
      toggle,
      hands>>

Next ==
    \/ \E enabled \in BOOLEAN : set_auto_reply(enabled)
    \/ trigger_respond_now
    \/ trigger_respond_to_suggestion
    \/ \E message \in Messages : register_message(message)
    \/ \E v \in Visions, o1 \in Outcomes, o2 \in Outcomes : RouteIntent(v, o1, o2)

Spec == Init /\ [][Next]_vars

(***************************************************************************)
(* Operations called from several threads (SpecConc).  A worker steps      *)
(* through route_intent one statement at a time; pc names the line it is   *)
(* about to execute, or the backend call it is blocked in.                 *)
(***************************************************************************)
\* the messages registered in the threaded specification
ConcMessages == {ChatA, ChatB, VoiceV}

\* the backend in the threaded specification returns a non-empty text or raises
ConcOutcomes == {"text", "raise"}

Goto(w, label) == pc' = [pc EXCEPT ![w] = label]

\* the call ends: it returns ret, or an exception leaves it
Leave(w, ret, raised) ==
    /\ pc' = [pc EXCEPT ![w] = "done"]
    /\ loc' = [loc EXCEPT ![w].ret = ret, ![w].raised = raised]

\* a text returned by a call that reset a flag counts for the trigger it consumed
Released(w, ret) ==
    LET l == loc[w]
    IN  [now |-> IF l.via = "now" /\ l.epoch = conc.now.epoch /\ ret.kind # "None"
                 THEN [conc.now EXCEPT !.released = Min(@ + 1, 2)] ELSE conc.now,
         sug |-> IF l.via = "sug" /\ l.epoch = conc.sug.epoch /\ ret.kind # "None"
                 THEN [conc.sug EXCEPT !.released = Min(@ + 1, 2)] ELSE conc.sug,
         made |-> conc.made]

\* route_intent is called with vision_description=None (main.py lines 142-145)
Call(w) ==
    /\ pc[w] = "idle"
    /\ conc.made.routes[w] < MaxRoutes
    /\ Goto(w, "l98")
    /\ loc' = [loc EXCEPT ![w] = LocIdle]
    /\ conc' = [conc EXCEPT !.made.routes[w] = @ + 1]
    /\ UNCHANGED <<fields, n_calls, result, history, stale, outsideRouter, reg>>

\* lines 98-99
L98(w) ==
    /\ pc[w] = "l98"
    /\ IF has_message(Self)
       THEN Goto(w, "l101") /\ UNCHANGED loc
       ELSE Leave(w, NoneVal, FALSE)
    /\ UNCHANGED <<fields, n_calls, result, history, stale, outsideRouter, reg, conc>>

\* line 101
L101(w) ==
    /\ pc[w] = "l101"
    /\ Goto(w, "l107")
    /\ loc' = [loc EXCEPT ![w].src = src_of(last_message)]
    /\ UNCHANGED <<fields, n_calls, result, history, stale, outsideRouter, reg, conc>>

\* lines 107-112: voice goes to _generate_response with self.last_message as read now
L107(w) ==
    /\ pc[w] = "l107"
    /\ IF loc[w].src = VOICE_INPUT
       THEN Goto(w, "draft_call") /\ loc' = [loc EXCEPT ![w].message = last_message]
       ELSE Goto(w, "l117") /\ UNCHANGED loc
    /\ UNCHANGED <<fields, n_calls, result, history, stale, outsideRouter, reg, conc>>

\* lines 117-122
L117(w) ==
    /\ pc[w] = "l117"
    /\ IF auto_reply_enabled
       THEN Goto(w, "draft_call") /\ loc' = [loc EXCEPT ![w].message = last_message]
       ELSE Goto(w, "l124") /\ UNCHANGED loc
    /\ UNCHANGED <<fields, n_calls, result, history, stale, outsideRouter, reg, conc>>

\* line 124
L124(w) ==
    /\ pc[w] = "l124"
    /\ IF respond_now_requested THEN Goto(w, "l125") ELSE Goto(w, "l133")
    /\ UNCHANGED <<fields, n_calls, result, history, stale, outsideRouter, loc, reg, conc>>

\* line 125
L125(w) ==
    /\ pc[w] = "l125"
    /\ respond_now_requested' = FALSE
    /\ Goto(w, "l126")
    /\ loc' = [loc EXCEPT ![w].via = "now", ![w].epoch = conc.now.epoch]
    /\ conc' = [conc EXCEPT !.now.consumed = Min(@ + 1, 2)]
    /\ UNCHANGED <<auto_reply_enabled, respond_to_suggestion_requested, last_message,
                   suggested_response, n_calls, result, history, stale, outsideRouter, reg>>

\* lines 126-130: _generate_response is entered with self.last_message as read now
L126(w) ==
    /\ pc[w] = "l126"
    /\ Goto(w, "draft_call")
    /\ loc' = [loc EXCEPT ![w].message = last_message]
    /\ UNCHANGED <<fields, n_calls, result, history, stale, outsideRouter, reg, conc>>

\* line 175: the draft call of _generate_response returns or raises
DraftReturns(w, outcome) ==
    /\ pc[w] = "draft_call"
    /\ n_calls < MaxConcCalls
    /\ n_calls' = n_calls + 1
    /\ LET d == draft_only(loc[w].message, loc[w].vision, n_calls + 1, outcome)
       IN  IF d.raised
           THEN Leave(w, NoneVal, TRUE)
           ELSE Goto(w, "verify_call") /\ loc' = [loc EXCEPT ![w].draft = d.out]
    /\ UNCHANGED <<fields, result, history, stale, outsideRouter, reg, conc>>

\* lines 176-179: the verify call of _generate_response returns or raises
VerifyReturns(w, outcome) ==
    /\ pc[w] = "verify_call"
    /\ n_calls < MaxConcCalls
    /\ n_calls' = n_calls + 1
    /\ LET f == verify_and_finalize(loc[w].draft, loc[w].message, loc[w].vision,
                                    n_calls + 1, outcome)
       IN  /\ Leave(w, f.out, f.raised)
           /\ conc' = Released(w, f.out)
    /\ UNCHANGED <<fields, result, history, stale, outsideRouter, reg>>

\* line 133
L133(w) ==
    /\ pc[w] = "l133"
    /\ IF ~has_suggestion(Self) THEN Goto(w, "l134") ELSE Goto(w, "l145")
    /\ UNCHANGED <<fields, n_calls, result, history, stale, outsideRouter, loc, reg, conc>>

\* lines 134-138: _draft_only is entered with self.last_message as read now
L134(w) ==
    /\ pc[w] = "l134"
    /\ Goto(w, "sugg_call")
    /\ loc' = [loc EXCEPT ![w].message = last_message]
    /\ UNCHANGED <<fields, n_calls, result, history, stale, outsideRouter, reg, conc>>

\* line 134: the co-pilot draft call returns or raises
SuggestionReturns(w, outcome) ==
    /\ pc[w] = "sugg_call"
    /\ n_calls < MaxConcCalls
    /\ n_calls' = n_calls + 1
    /\ LET d == draft_only(loc[w].message, loc[w].vision, n_calls + 1, outcome)
       IN  IF d.raised
           THEN Leave(w, NoneVal, TRUE)
           ELSE Goto(w, "l139") /\ loc' = [loc EXCEPT ![w].draft = d.out]
    /\ UNCHANGED <<fields, result, history, stale, outsideRouter, reg, conc>>

\* lines 139-142: the suggestion is queued with self.last_message as read now
L139(w) ==
    /\ pc[w] = "l139"
    /\ suggested_response' = queued(last_message, loc[w].draft)
    /\ Goto(w, "l145")
    /\ UNCHANGED <<auto_reply_enabled, respond_now_requested,
                   respond_to_suggestion_requested, last_message,
                   n_calls, result, history, stale, outsideRouter, loc, reg, conc>>

\* lines 145 and 156
L145(w) ==
    /\ pc[w] = "l145"
    /\ IF approved(Self)
       THEN Goto(w, "l146") /\ UNCHANGED loc
       ELSE Leave(w, NoneVal, FALSE)
    /\ UNCHANGED <<fields, n_calls, result, history, stale, outsideRouter, reg, conc>>

\* line 146
L146(w) ==
    /\ pc[w] = "l146"
    /\ respond_to_suggestion_requested' = FALSE
    /\ Goto(w, "l149")
    /\ loc' = [loc EXCEPT ![w].via = "sug", ![w].epoch = conc.sug.epoch]
    /\ conc' = [conc EXCEPT !.sug.consumed = Min(@ + 1, 2)]
    /\ UNCHANGED <<auto_reply_enabled, respond_now_requested, last_message,
                   suggested_response, n_calls, result, history, stale, outsideRouter, reg>>

\* line 149: self.suggested_response["draft"]; subscripting None raises TypeError
L149(w) ==
    /\ pc[w] = "l149"
    /\ IF has_suggestion(Self)
       THEN Goto(w, "l150") /\ loc' = [loc EXCEPT ![w].sdraft = suggested_response.draft]
       ELSE Leave(w, NoneVal, TRUE)
    /\ UNCHANGED <<fields, n_calls, result, history, stale, outsideRouter, reg, conc>>

\* line 150: self.suggested_response["message"]; then _verify_and_finalize is entered
L150(w) ==
    /\ pc[w] = "l150"
    /\ IF has_suggestion(Self)
       THEN /\ Goto(w, "final_call")
            /\ loc' = [loc EXCEPT ![w].message = suggested_response.message]
       ELSE Leave(w, NoneVal, TRUE)
    /\ UNCHANGED <<fields, n_calls, result, history, stale, outsideRouter, reg, conc>>

\* lines 147-152: the verify call over the queued draft returns or raises
FinalReturns(w, outcome) ==
    /\ pc[w] = "final_call"
    /\ n_calls < MaxConcCalls
    /\ n_calls' = n_calls + 1
    /\ LET f == verify_and_finalize(loc[w].sdraft, loc[w].message, loc[w].vision,
                                    n_calls + 1, outcome)
       IN  IF f.raised
           THEN Leave(w, NoneVal, TRUE)
           ELSE Goto(w, "l153") /\ loc' = [loc EXCEPT ![w].ret = f.out]
    /\ UNCHANGED <<fields, result, history, stale, outsideRouter, reg, conc>>

\* lines 153-154
L153(w) ==
    /\ pc[w] = "l153"
    /\ suggested_response' = NoSuggestion
    /\ Goto(w, "done")
    /\ conc' = Released(w, loc[w].ret)
    /\ UNCHANGED <<auto_reply_enabled, respond_now_requested,
                   respond_to_suggestion_requested, last_message,
                   n_calls, result, history, stale, outsideRouter, loc, reg>>

\* the caller has taken the result; the worker may call again
Finish(w) ==
    /\ pc[w] = "done"
    /\ Goto(w, "idle")
    /\ loc' = [loc EXCEPT ![w] = LocIdle]
    /\ UNCHANGED <<fields, n_calls, result, history, stale, outsideRouter, reg, conc>>

\* set_auto_reply, line 49
ConcSetAutoReply(enabled) ==
    /\ conc.made.switches < MaxSwitches
    /\ auto_reply_enabled' = enabled
    /\ conc' = [conc EXCEPT !.made.switches = @ + 1]
    /\ UNCHANGED <<respond_now_requested, respond_to_suggestion_requested,
                   last_message, suggested_response, n_calls, result, history, stale, outsideRouter,
                   pc, loc, reg>>

\* a flag raised from false starts a new count
Raised(c, flag) ==
    IF flag THEN c ELSE [epoch |-> c.epoch + 1, consumed |-> 0, released |-> 0]

\* trigger_respond_now, line 53
ConcTriggerNow ==
    /\ respond_now_requested \/ conc.now.epoch < MaxTriggers
    /\ respond_now_requested' = TRUE
    /\ conc' = [conc EXCEPT !.now = Raised(@, respond_now_requested)]
    /\ UNCHANGED <<auto_reply_enabled, respond_to_suggestion_requested, last_message,
                   suggested_response, n_calls, result, history, stale, outsideRouter, pc, loc, reg>>

\* trigger_respond_to_suggestion, line 57
ConcTriggerSuggestion ==
    /\ respond_to_suggestion_requested \/ conc.sug.epoch < MaxTriggers
    /\ respond_to_suggestion_requested' = TRUE
    /\ conc' = [conc EXCEPT !.sug = Raised(@, respond_to_suggestion_requested)]
    /\ UNCHANGED <<auto_reply_enabled, respond_now_requested, last_message,
                   suggested_response, n_calls, result, history, stale, outsideRouter, pc, loc, reg>>

\* register_message, line 73
RegisterL73(message) ==
    /\ reg.pc = "idle"
    /\ conc.made.registers < MaxRegisters
    /\ last_message' = message
    /\ reg' = [pc |-> "l75", during |-> {w \in Workers : pc[w] = "sugg_call"}]
    /\ conc' = [conc EXCEPT !.made.registers = @ + 1]
    /\ UNCHANGED <<auto_reply_enabled, respond_now_requested,
                   respond_to_suggestion_requested, suggested_response,
                   n_calls, result, history, stale, outsideRouter, pc, loc>>

\* register_message, line 75
RegisterL75 ==
    /\ reg.pc = "l75"
    /\ suggested_response' = NoSuggestion
    /\ reg' = RegIdle
    /\ loc' = [w \in Workers |->
                  IF w \in reg.during /\ pc[w] = "sugg_call"
                  THEN [loc[w] EXCEPT !.interrupted = TRUE]
                  ELSE loc[w]]
    /\ UNCHANGED <<auto_reply_enabled, respond_now_requested,
                   respond_to_suggestion_requested, last_message,
                   n_calls, result, history, stale, outsideRouter, pc, conc>>

WorkerStep(w) ==
    \/ Call(w)
    \/ L98(w) \/ L101(w) \/ L107(w) \/ L117(w)
    \/ L124(w) \/ L125(w) \/ L126(w)
    \/ \E o \in ConcOutcomes : DraftReturns(w, o)
    \/ \E o \in ConcOutcomes : VerifyReturns(w, o)
    \/ L133(w) \/ L134(w)
    \/ \E o \in ConcOutcomes : SuggestionReturns(w, o)
    \/ L139(w) \/ L145(w) \/ L146(w) \/ L149(w) \/ L150(w)
    \/ \E o \in ConcOutcomes : FinalReturns(w, o)
    \/ L153(w)
    \/ Finish(w)

NextConc ==
    \/ \E w \in Workers : WorkerStep(w)
    \/ \E enabled \in BOOLEAN : ConcSetAutoReply(enabled)
    \/ ConcTriggerNow
    \/ ConcTriggerSuggestion
    \/ \E message \in ConcMessages : RegisterL73(message)
    \/ RegisterL75

SpecConc == Init /\ [][NextConc]_vars

(***************************************************************************)
(* EventBus operations (SpecBus).                                          *)
(***************************************************************************)
\* subscribe, lines 18-23
subscribe(event_name, callback) ==
    /\ Len(sub_log) < MaxSubscriptions
    /\ subscribers' = subscribed(subscribers, event_name, callback)
    /\ sub_log' = Append(sub_log, [event |-> event_name, callback |-> callback])
    /\ published' = [NothingPublished EXCEPT !.op = "subscribe", !.event = event_name]
    /\ UNCHANGED outsideBus

\* publish, lines 25-37; fails: the positions of the list whose call raises
publish(event_name, data, fails) ==
    /\ event_name \in DOMAIN subscribers => fails \subseteq 1..Len(subscribers[event_name])
    /\ event_name \notin DOMAIN subscribers => fails = {}
    /\ LET d == dispatched(subscribers, event_name, data, fails)
       IN  published' = [op |-> "publish", event |-> event_name, data |-> data,
                         invoked |-> d.invoked, errors |-> d.errors,
                         warned |-> d.warned, raised |-> d.raised,
                         subs |-> Len(sub_log)]
    /\ UNCHANGED <<subscribers, sub_log>>
    /\ UNCHANGED outsideBus

NextBus ==
    \/ \E e \in Events, c \in Callbacks : subscribe(e, c)
    \/ \E e \in Events, d \in Payloads, fails \in SUBSET (1..MaxSubscriptions) :
           publish(e, d, fails)

SpecBus == Init /\ [][NextBus]_vars

(***************************************************************************)
(* One publish call step by step, with callbacks that may subscribe        *)
(* (SpecDispatch).  The bus is used from one thread here: subscribe is     *)
(* called between publish calls or by the callback the loop is running.    *)
(***************************************************************************)
\* subscribe called while no publish is under way
SubscribeOutside(event_name, callback) ==
    /\ dispatch.pc # "loop"
    /\ Len(sub_log) < MaxSubscriptions
    /\ subscribers' = subscribed(subscribers, event_name, callback)
    /\ sub_log' = Append(sub_log, [event |-> event_name, callback |-> callback])
    /\ UNCHANGED <<dispatch, outsideDispatch>>

\* publish is called, lines 25-33
PublishEnters(event_name, data) ==
    /\ dispatch.pc # "loop"
    /\ dispatch' = entered(subscribers, event_name, data)
    /\ UNCHANGED <<subscribers, sub_log, outsideDispatch>>

\* lines 33-37: the next callback is invoked; whatever it does, the loop goes on
CallbackRuns(does, event_name, callback) ==
    /\ dispatch.pc = "loop"
    /\ has_next(subscribers, dispatch)
    /\ dispatch' = [dispatch EXCEPT !.next = @ + 1,
                                    !.invoked = Append(@, next_callback(subscribers, dispatch))]
    /\ IF does = "subscribes"
       THEN /\ Len(sub_log) < MaxSubscriptions
            /\ subscribers' = subscribed(subscribers, event_name, callback)
            /\ sub_log' = Append(sub_log, [event |-> event_name, callback |-> callback])
       ELSE /\ event_name = dispatch.event
            /\ callback = next_callback(subscribers, dispatch)
            /\ UNCHANGED <<subscribers, sub_log>>
    /\ UNCHANGED outsideDispatch

\* the iterator is exhausted and publish returns
PublishReturns ==
    /\ dispatch.pc = "loop"
    /\ ~has_next(subscribers, dispatch)
    /\ dispatch' = [dispatch EXCEPT !.pc = "returned"]
    /\ UNCHANGED <<subscribers, sub_log, outsideDispatch>>

NextDispatch ==
    \/ \E e \in Events, c \in Callbacks : SubscribeOutside(e, c)
    \/ \E e \in Events, d \in Payloads : PublishEnters(e, d)
    \/ \E does \in CallbackDoes, e \in Events, c \in Callbacks : CallbackRuns(does, e, c)
    \/ PublishReturns

SpecDispatch == Init /\ [][NextDispatch]_vars

(***************************************************************************)
(* CommandHandler operations (SpecCommands).                               *)
(***************************************************************************)
\* handle_chat_message(text, user=user, role=role)
HandleChatMessage(text, user, role) ==
    LET r == handle_chat_message(Ledgers, text, user, role, clock)
        known == r.name \in DOMAIN custom_commands
        cmd == custom_commands[r.name]
    IN  /\ last_used_global' = r.ledgers.global
        /\ last_used_user' = r.ledgers.user
        /\ cmd_result' =
               [op |-> "handle_chat_message", text |-> text, user |-> user,
                role |-> role, at |-> clock, status |-> r.status, name |-> r.name,
                retry_after |-> r.retry_after,
                last_g |-> get(last_used_global, r.name, 0),
                last_u |-> get(last_used_user, <<r.name, user>>, 0),
                gate |-> IF known
                         THEN check_cooldowns(Ledgers, r.name, user, clock,
                                              cmd.cooldown_seconds,
                                              cmd.user_cooldown_seconds)
                         ELSE NoCommand.gate]
        /\ UNCHANGED <<clock, advances, custom_commands>>
        /\ UNCHANGED outsideCommands

\* time passes between two calls
Advance(step) ==
    /\ advances < MaxAdvances
    /\ clock' = clock + step
    /\ advances' = advances + 1
    /\ UNCHANGED <<last_used_global, last_used_user, custom_commands, cmd_result>>
    /\ UNCHANGED outsideCommands

\* reload_custom_commands(), the file holding raw
reload_custom_commands(raw) ==
    /\ custom_commands' = reloaded(raw)
    /\ cmd_result' = [NoCommand EXCEPT !.op = "reload_custom_commands"]
    /\ UNCHANGED <<clock, advances, last_used_global, last_used_user>>
    /\ UNCHANGED outsideCommands

NextCommands ==
    \/ \E c \in ChatCalls : HandleChatMessage(c.text, c.user, c.role)
    \/ \E step \in Steps : Advance(step)
    \/ \E raw \in CommandsFiles : reload_custom_commands(raw)

SpecCommands == Init /\ [][NextCommands]_vars

(***************************************************************************)
(* The CommandHandler with a file that sets cooldowns to 0 and names       *)
(* commands like the built-in ones (SpecCommandsZero).                     *)
(***************************************************************************)
NextCommandsZero ==
    \/ \E c \in ZeroCalls : HandleChatMessage(c.text, c.user, c.role)
    \/ \E step \in Steps : Advance(step)
    \/ reload_custom_commands(CommandsFileZero)

SpecCommandsZero == Init /\ [][NextCommandsZero]_vars

(***************************************************************************)
(* _render_response applied to a template, a user name and an argument     *)
(* string.                                                                 *)
(***************************************************************************)
RenderResponse(template, user, args) ==
    /\ rendered' = [op |-> "_render_response", template |-> template, user |-> user,
                    args |-> args, out |-> render_response(template, user, args)]
    /\ UNCHANGED outsideRender

NextRender ==
    \E template \in Templates, user \in RenderUsers, args \in RenderArgs :
        RenderResponse(template, user, args)

SpecRender == Init /\ [][NextRender]_vars

(***************************************************************************)
(* AIEngine.process and MemoryManager.add_memory, one call at a time.      *)
(***************************************************************************)
\* engine.process(message, metadata) on an engine whose memory is the store
Process(engine, message, backend) ==
    LET r == process(engine, message, backend)
    IN  /\ engine_result' =
               [op |-> "process", memory |-> engine.memory, message |-> message,
                raised |-> r.raised, priority |-> r.priority, attempt |-> r.attempt,
                logged |-> r.logged, events |-> r.events,
                backend_called |-> r.backend_called, reply |-> r.reply]
        /\ UNCHANGED <<short_term, long_term, created>>
        /\ UNCHANGED outsideEngine

\* memory.add_memory(text, metadata, persist)
AddMemory(text, metadata, disk) ==
    LET after == add_memory(Store, text, metadata, disk)
    IN  /\ created < MaxMemories
        /\ short_term' = after.short_term
        /\ long_term' = after.long_term
        /\ created' = after.created
        /\ engine_result' = [NoProcess EXCEPT !.op = "add_memory", !.message = text]
        /\ UNCHANGED outsideEngine

NextEngine ==
    \/ \E engine \in Engines, message \in EngineMessages, backend \in Backends :
           Process(engine, message, backend)
    \/ \E text \in {M_HI, M_REMEMBER}, metadata \in Metadatas, disk \in Disks :
           AddMemory(text, metadata, disk)

SpecEngine == Init /\ [][NextEngine]_vars

(***************************************************************************)
(* AIEngine.process under every setting of the offline and online          *)
(* switches (SpecEngineModes).                                             *)
(***************************************************************************)
outsideModes ==
    <<routerVars, busVars, cmdVars, renderVars, engineVars, mainVars, listenerVars, stale,
      dispatch, tts, waiter, watch, toggle, hands>>

ProcessWithSettings(engine, message, backend) ==
    \E r \in {process(engine, message, backend)} :
        /\ mode_result' =
               [op |-> "process", offline_only |-> engine.offline_only,
                backend |-> backend, message |-> message,
                online_path |-> online_path(engine, backend),
                api_called |-> api_called(engine, backend),
                raised |-> r.raised, reply |-> r.reply]
        /\ UNCHANGED outsideModes

NextEngineModes ==
    \E engine \in Engines, message \in EngineMessages, backend \in ModeBackends :
        ProcessWithSettings(engine, message, backend)

SpecEngineModes == Init /\ [][NextEngineModes]_vars

(***************************************************************************)
(* The callbacks of main(), each run to completion.                        *)
(***************************************************************************)
\* handle_voice_transcribed(data); tts.speak raises or not when it is called
HandleVoiceTranscribed(data, run1, run2, speak_fails) ==
    \E h \in {handle_voice_transcribed(Self, n_calls, data, run1, run2)} :
        /\ h.routed => n_calls + 2 <= MaxCalls
        /\ auto_reply_enabled' = h.self.auto_reply_enabled
        /\ respond_now_requested' = h.self.respond_now_requested
        /\ respond_to_suggestion_requested' = h.self.respond_to_suggestion_requested
        /\ last_message' = h.self.last_message
        /\ suggested_response' = h.self.suggested_response
        /\ n_calls' = h.n_calls
        /\ main_result' =
               [op |-> "handle_voice_transcribed", data |-> data,
                run1 |-> IF h.routed THEN run1 ELSE "text",
                run2 |-> IF Len(h.calls) = 2 THEN run2 ELSE "text",
                registered |-> h.registered, routed |-> h.routed, calls |-> h.calls,
                ret |-> h.ret, raised |-> h.raised, spoken |-> h.spoken,
                speak_failed |-> speak_fails /\ h.spoken # <<>>,
                escaped |-> h.escaped]
        /\ UNCHANGED outsideMain

\* handle_auto_reply_set(data), lines 79-83
HandleAutoReplySet(data) ==
    /\ auto_reply_enabled' = (data.kind = "dict" /\ data.enabled)
    /\ main_result' = [NothingHandled EXCEPT !.op = "handle_auto_reply_set"]
    /\ UNCHANGED <<respond_now_requested, respond_to_suggestion_requested, last_message,
                   suggested_response, n_calls>>
    /\ UNCHANGED outsideMain

\* handle_respond_now(_data), lines 85-87
HandleRespondNow ==
    /\ respond_now_requested' = TRUE
    /\ main_result' = [NothingHandled EXCEPT !.op = "handle_respond_now"]
    /\ UNCHANGED <<auto_reply_enabled, respond_to_suggestion_requested, last_message,
                   suggested_response, n_calls>>
    /\ UNCHANGED outsideMain

\* handle_respond_suggestion(_data), lines 89-91
HandleRespondSuggestion ==
    /\ respond_to_suggestion_requested' = TRUE
    /\ main_result' = [NothingHandled EXCEPT !.op = "handle_respond_suggestion"]
    /\ UNCHANGED <<auto_reply_enabled, respond_now_requested, last_message,
                   suggested_response, n_calls>>
    /\ UNCHANGED outsideMain

NextMain ==
    \/ \E e \in VoiceEvents :
           HandleVoiceTranscribed(e.data, e.runs[1], e.runs[2], e.speak_fails)
    \/ \E data \in EnabledDatas : HandleAutoReplySet(data)
    \/ HandleRespondNow
    \/ HandleRespondSuggestion

SpecMain == Init /\ [][NextMain]_vars

(***************************************************************************)
(* The hotkey thread and the recorder threads, step by step.               *)
(***************************************************************************)
routerKept == <<last_message, suggested_response>>

\* F12 switches listening on: _on_listen_toggle, _handle_toggle, start_recording
\* (lines 83-98); a recorder thread is started unless one is recording
PressOn ==
    /\ hotkey.pc = "idle" /\ ~hotkey.listening
    /\ hotkey.presses < MaxPresses
    /\ hotkey' = [hotkey EXCEPT !.listening = TRUE, !.presses = @ + 1]
    /\ IF listener.is_recording
       THEN UNCHANGED <<listener, recorder>>
       ELSE \E w \in Recorders :
                /\ recorder[w] = "unborn"
                /\ \A v \in Recorders : v < w => recorder[v] # "unborn"
                /\ listener' = [is_recording |-> TRUE, stop_event |-> FALSE, worker |-> w]
                /\ recorder' = [recorder EXCEPT ![w] = "recording"]
    /\ UNCHANGED <<routerKept, outsideListener>>

\* F12 switches listening off: _on_listen_toggle, _handle_toggle, stop_recording
\* lines 101-107: nothing to stop, or the stop event is set
PressOff ==
    /\ hotkey.pc = "idle" /\ hotkey.listening
    /\ hotkey.presses < MaxPresses
    /\ IF ~listener.is_recording
       THEN /\ hotkey' = [hotkey EXCEPT !.listening = FALSE, !.presses = @ + 1]
            /\ UNCHANGED listener
       ELSE /\ hotkey' = [hotkey EXCEPT !.listening = FALSE, !.presses = @ + 1,
                                        !.pc = "l110"]
            /\ listener' = [listener EXCEPT !.stop_event = TRUE]
    /\ UNCHANGED <<recorder, routerKept, outsideListener>>

\* stop_recording, lines 109-111: worker = self._worker
StopL110 ==
    /\ hotkey.pc = "l110"
    /\ hotkey' = [hotkey EXCEPT !.worker = listener.worker, !.pc = "l113"]
    /\ UNCHANGED <<listener, recorder, routerKept, outsideListener>>

\* stop_recording, line 113: join only a thread that is alive
StopL113 ==
    /\ hotkey.pc = "l113"
    /\ hotkey' = [hotkey EXCEPT !.pc = IF is_alive(recorder, hotkey.worker)
                                       THEN "join" ELSE "l116"]
    /\ UNCHANGED <<listener, recorder, routerKept, outsideListener>>

\* worker.join(timeout=5.0) returns because the recorder thread has ended
JoinReturns ==
    /\ hotkey.pc = "join"
    /\ ~is_alive(recorder, hotkey.worker)
    /\ hotkey' = [hotkey EXCEPT !.pc = "l116"]
    /\ UNCHANGED <<listener, recorder, routerKept, outsideListener>>

\* worker.join(timeout=5.0) gives up after five seconds, the recorder still running
JoinTimesOut ==
    /\ hotkey.pc = "join"
    /\ is_alive(recorder, hotkey.worker)
    /\ hotkey' = [hotkey EXCEPT !.pc = "l116"]
    /\ UNCHANGED <<listener, recorder, routerKept, outsideListener>>

\* stop_recording, lines 116-120: a recorder still alive is given up
StopL116 ==
    /\ hotkey.pc = "l116"
    /\ hotkey' = [hotkey EXCEPT !.pc = "idle", !.worker = NoWorker]
    /\ listener' = IF is_alive(recorder, hotkey.worker)
                   THEN [listener EXCEPT !.is_recording = FALSE, !.worker = NoWorker]
                   ELSE listener
    /\ UNCHANGED <<recorder, routerKept, outsideListener>>

\* the recorder w moves from one place of _record_worker to another
Moves(w, from, to) ==
    /\ recorder[w] = from
    /\ recorder' = [recorder EXCEPT ![w] = to]

\* _record_worker, lines 140-151: the loop ends when the stop event is set, or the
\* recording crashes
RecordingEnds(w, crashed) ==
    /\ Moves(w, "recording", "finalize")
    /\ crashed \/ listener.stop_event
    /\ UNCHANGED <<hotkey, listener, routerKept, outsideListener>>

\* lines 154-157: no usable audio ends the worker, otherwise the chunk is saved
Finalize(w, usable) ==
    /\ Moves(w, "finalize", IF usable THEN "transcribe" ELSE "finally")
    /\ UNCHANGED <<hotkey, listener, routerKept, outsideListener>>

\* lines 162-175: speech-to-text; an empty transcript or an error ends the worker
Transcribe(w, words) ==
    /\ Moves(w, "transcribe", IF words THEN "publish" ELSE "finally")
    /\ UNCHANGED <<hotkey, listener, routerKept, outsideListener>>

\* lines 170-173 and main.py 108-138: publish runs handle_voice_transcribed on this
\* thread, which registers the text and calls route_intent
PublishTranscribed(w) ==
    /\ Moves(w, "publish", "draft call")
    /\ LET after == registered(Self, voice_message(SPOKEN_TEXT))
       IN  /\ last_message' = after.last_message
           /\ suggested_response' = after.suggested_response
    /\ UNCHANGED <<hotkey, listener, outsideListener>>

\* the draft call of route_intent returns or raises
DraftCallEnds(w, raises) ==
    /\ Moves(w, "draft call", IF raises THEN "finally" ELSE "verify call")
    /\ UNCHANGED <<hotkey, listener, routerKept, outsideListener>>

\* the verify call returns or raises; main.py 151-158 then speaks or not
VerifyCallEnds(w, raises) ==
    /\ Moves(w, "verify call", "finally")
    /\ UNCHANGED <<hotkey, listener, routerKept, outsideListener>>

\* lines 177-182, finally: the listener is reset and the thread ends
Finally(w) ==
    /\ Moves(w, "finally", "dead")
    /\ listener' = ListenerInit
    /\ UNCHANGED <<hotkey, routerKept, outsideListener>>

NextListener ==
    \/ PressOn
    \/ PressOff
    \/ StopL110
    \/ StopL113
    \/ JoinReturns
    \/ JoinTimesOut
    \/ StopL116
    \/ \E w \in Recorders, crashed \in BOOLEAN : RecordingEnds(w, crashed)
    \/ \E w \in Recorders, usable \in BOOLEAN : Finalize(w, usable)
    \/ \E w \in Recorders, words \in BOOLEAN : Transcribe(w, words)
    \/ \E w \in Recorders : PublishTranscribed(w)
    \/ \E w \in Recorders, raises \in BOOLEAN : DraftCallEnds(w, raises)
    \/ \E w \in Recorders, raises \in BOOLEAN : VerifyCallEnds(w, raises)
    \/ \E w \in Recorders : Finally(w)

SpecListener == Init /\ [][NextListener]_vars

(***************************************************************************)
(* LocalTTS step by step (SpecTTS, and SpecTTSFair with a worker thread    *)
(* that is scheduled and an engine that ends every utterance).             *)
(***************************************************************************)
outsideTTS ==
    <<routerVars, busVars, cmdVars, renderVars, engineVars, mainVars, listenerVars, stale,
      dispatch, mode_result, watch, toggle, hands>>

\* speak(text), lines 45-56
Speak(text) ==
    /\ Len(tts.said) < MaxUtterances
    /\ tts' = IF enqueued_text(text) = <<>>
              THEN tts
              ELSE [tts EXCEPT !.q = Append(@, enqueued_text(text)),
                               !.said = Append(@, enqueued_text(text))]
    /\ UNCHANGED <<waiter, outsideTTS>>

\* stop(), lines 75-77
Stop ==
    /\ ~tts.stop_event
    /\ tts' = [tts EXCEPT !.stop_event = TRUE, !.q = Append(@, STOP_ITEM)]
    /\ UNCHANGED <<waiter, outsideTTS>>

\* _worker_loop, line 110
WorkerL110 ==
    /\ tts.pc = "l110"
    /\ tts' = [tts EXCEPT !.pc = IF tts.stop_event THEN "exited" ELSE "l111"]
    /\ UNCHANGED <<waiter, outsideTTS>>

\* lines 111-117: q.get() waits for an item; None ends the loop
WorkerGet ==
    /\ tts.pc = "l111"
    /\ tts.q # <<>>
    /\ tts' = [tts EXCEPT !.q = Tail(@), !.item = Head(tts.q),
                          !.pc = IF Head(tts.q) = STOP_ITEM THEN "exited"
                                 ELSE IF strip(Head(tts.q)) = <<>> THEN "l110"
                                 ELSE "l87"]
    /\ UNCHANGED <<waiter, outsideTTS>>

\* _speak_once, lines 84-87: the import of the engine, which fails before the flag
\* is touched, or after which the flag is raised
WorkerL87(import_fails) ==
    /\ tts.pc = "l87"
    /\ tts' = IF import_fails
              THEN [tts EXCEPT !.item = <<>>,
                               !.attempts = Append(@, [text |-> tts.item, failed |-> TRUE]),
                               !.pc = after_speak_error(TRUE)]
              ELSE [tts EXCEPT !.is_speaking = TRUE, !.pc = "speaking"]
    /\ UNCHANGED <<waiter, outsideTTS>>

\* lines 88-107 and 120-125: the engine speaks the text or fails; the flag is
\* lowered in the finally block
SpeechEnds(failed) ==
    /\ tts.pc = "speaking"
    /\ tts' = [tts EXCEPT !.is_speaking = FALSE, !.item = <<>>,
                          !.attempts = Append(@, [text |-> tts.item, failed |-> failed]),
                          !.pc = after_speak_error(failed)]
    /\ UNCHANGED <<waiter, outsideTTS>>

\* wait_until_done(timeout) is called, line 63
WaitCalled ==
    /\ waiter.pc \in {"idle", "returned"}
    /\ waiter' = [pc |-> "l65", upto |-> Len(tts.said), ret |-> "none"]
    /\ UNCHANGED <<tts, outsideTTS>>

\* line 65, first operand: self._q.empty()
WaitL65Empty ==
    /\ waiter.pc = "l65"
    /\ waiter' = [waiter EXCEPT !.pc = IF tts.q = <<>> THEN "l65 speaking" ELSE "l67"]
    /\ UNCHANGED <<tts, outsideTTS>>

\* line 65, second operand: not self.is_speaking(); line 66: return True
WaitL65Speaking ==
    /\ waiter.pc = "l65 speaking"
    /\ waiter' = IF ~tts.is_speaking
                 THEN [waiter EXCEPT !.pc = "returned", !.ret = "True"]
                 ELSE [waiter EXCEPT !.pc = "l67"]
    /\ UNCHANGED <<tts, outsideTTS>>

\* lines 67-69: the timeout has passed and False is returned, or the loop sleeps
WaitL67(timed_out) ==
    /\ waiter.pc = "l67"
    /\ waiter' = IF timed_out
                 THEN [waiter EXCEPT !.pc = "returned", !.ret = "False"]
                 ELSE [waiter EXCEPT !.pc = "l65"]
    /\ UNCHANGED <<tts, outsideTTS>>

WorkerStep_TTS ==
    \/ WorkerL110
    \/ WorkerGet
    \/ \E import_fails \in BOOLEAN : WorkerL87(import_fails)
    \/ \E failed \in BOOLEAN : SpeechEnds(failed)

NextTTS ==
    \/ \E text \in SpeakTexts : Speak(text)
    \/ Stop
    \/ WorkerL110
    \/ WorkerGet
    \/ \E import_fails \in BOOLEAN : WorkerL87(import_fails)
    \/ \E failed \in BOOLEAN : SpeechEnds(failed)
    \/ WaitCalled
    \/ WaitL65Empty
    \/ WaitL65Speaking
    \/ \E timed_out \in BOOLEAN : WaitL67(timed_out)

SpecTTS == Init /\ [][NextTTS]_vars

SpecTTSFair == Init /\ [][NextTTS]_vars /\ WF_vars(WorkerStep_TTS)

(***************************************************************************)
(* The watch toggle step by step (SpecWatch): the handler on the hotkey    *)
(* thread, the watch loop on its own thread.                               *)
(***************************************************************************)
outsideWatch ==
    <<routerVars, busVars, cmdVars, renderVars, engineVars, mainVars, listenerVars, stale,
      dispatch, mode_result, tts, waiter, hands>>

\* Ctrl+Shift+F8: _on_vision_watch_toggle, line 205, the test of is_watching()
ToggleL205 ==
    /\ toggle.pc \in {"idle", "published"}
    /\ toggle.presses < MaxToggles
    /\ toggle' = [toggle EXCEPT !.pc = IF is_watching(watch) THEN "l206" ELSE "l216",
                                !.presses = @ + 1]
    /\ UNCHANGED <<watch, outsideWatch>>

\* lines 206-207: stop_watch(), enabled = False
ToggleL206 ==
    /\ toggle.pc = "l206"
    /\ watch' = stop_watch(watch)
    /\ toggle' = [toggle EXCEPT !.pc = "l226", !.enabled = FALSE]
    /\ UNCHANGED outsideWatch

\* lines 209-223: start_watch(...), enabled = True
ToggleL216 ==
    /\ toggle.pc = "l216"
    /\ watch' = start_watch(watch)
    /\ toggle' = [toggle EXCEPT !.pc = "l226", !.enabled = TRUE]
    /\ UNCHANGED outsideWatch

\* line 226: publish('vision.watch.set', {'enabled': enabled})
ToggleL226 ==
    /\ toggle.pc = "l226"
    /\ toggle' = [toggle EXCEPT !.pc = "published"]
    /\ UNCHANGED <<watch, outsideWatch>>

\* _watch_loop, lines 375-403: one cycle while the stop event is not set
WatchCycle(t) ==
    /\ t \in watch.alive
    /\ ~watch.watch_stop
    /\ watch.cycles < MaxCycles
    /\ watch' = [watch EXCEPT !.cycles = @ + 1]
    /\ UNCHANGED <<toggle, outsideWatch>>

\* line 375: the stop event is set and the loop thread returns
WatchExits(t) ==
    /\ t \in watch.alive
    /\ watch.watch_stop
    /\ watch' = [watch EXCEPT !.alive = @ \ {t}]
    /\ UNCHANGED <<toggle, outsideWatch>>

NextWatch ==
    \/ ToggleL205
    \/ ToggleL206
    \/ ToggleL216
    \/ ToggleL226
    \/ \E t \in 1..MaxToggles : WatchCycle(t)
    \/ \E t \in 1..MaxToggles : WatchExits(t)

SpecWatch == Init /\ [][NextWatch]_vars

(***************************************************************************)
(* Hands: the gate, the dry-run switch and execute (SpecHands).            *)
(***************************************************************************)
outsideHands ==
    <<routerVars, busVars, cmdVars, renderVars, engineVars, mainVars, listenerVars, stale,
      dispatch, mode_result, tts, waiter, watch, toggle>>

\* set_enabled, lines 202-203
SetEnabled(enabled) ==
    /\ hands' = [hands EXCEPT !.enabled = enabled]
    /\ UNCHANGED outsideHands

\* set_dry_run, lines 205-206
SetDryRun(dry_run) ==
    /\ hands' = [hands EXCEPT !.dry_run = dry_run]
    /\ UNCHANGED outsideHands

\* execute(action), lines 225-273
Execute(action, env) ==
    /\ hands.calls < MaxExecutes
    /\ \E r \in {execute(hands, action, env)} :
        hands' = [hands EXCEPT !.audit = @ \o r.audit,
                               !.done = @ \o r.performed,
                               !.calls = @ + 1,
                               !.last = [called |-> TRUE, action |-> action,
                                         enabled |-> hands.enabled,
                                         dry_run |-> hands.dry_run,
                                         raised |-> r.raised,
                                         performed |-> r.performed,
                                         audit |-> r.audit]]
    /\ UNCHANGED outsideHands

NextHands ==
    \/ \E enabled \in BOOLEAN : SetEnabled(enabled)
    \/ \E dry_run \in BOOLEAN : SetDryRun(dry_run)
    \/ \E action \in HandsActions : \E env \in HandsEnvs : Execute(action, env)

SpecHands == Init /\ [][NextHands]_vars

(***************************************************************************)
(* Properties of the router, operations called one at a time (Spec).       *)
(***************************************************************************)
Routed == result.op = "route_intent"
Pre == result.pre
Calls == result.calls
Returned == result.ret.kind # "None"

\* call c is the draft pass for message m
IsDraftFor(c, m) ==
    /\ c.source = "intent_router_draft"
    /\ c.prompt.mode = "draft"
    /\ c.prompt.user = m.user /\ c.prompt.text = m.text
    /\ c.prompt.draft = NoRef

\* call c is the verify pass for message m over the text d
IsVerifyOf(c, m, d) ==
    /\ c.source = "intent_router_verify"
    /\ c.prompt.mode = "verify"
    /\ c.prompt.user = m.user /\ c.prompt.text = m.text
    /\ c.prompt.draft = (IF d.kind = "None" \/ d.empty THEN NoRef
                         ELSE [id |-> d.id, mode |-> d.prompt.mode,
                               user |-> d.prompt.user, text |-> d.prompt.text])

\* the calls are exactly draft for m, then verify for m over that draft's output
TwoPass(calls, m) ==
    /\ Len(calls) = 2
    /\ IsDraftFor(calls[1], m) /\ ~calls[1].raised
    /\ IsVerifyOf(calls[2], m, calls[1].out)
    /\ calls[1].out.id < calls[2].out.id \/ calls[2].raised

\* C1: a route_intent call on a registered voice message makes, whatever the
\* auto-reply switch, the one-shot flags and the suggestion slot, exactly two backend
\* calls, draft then verify over that draft, and returns the verify call's output,
\* which is not None (backend calls not raising).
C1_VoiceAlwaysTwoPass ==
    (Routed /\ Pre.last_message \in VoiceMessages /\ ~result.raised)
        => /\ TwoPass(Calls, Pre.last_message)
           /\ result.ret = Calls[2].out
           /\ Returned

\* a voice route with auto-reply off, both flags set: still answered in two passes
C1_Witness ==
    /\ Routed /\ Pre.last_message = VoiceW /\ ~result.raised
    /\ ~Pre.auto_reply_enabled
    /\ Pre.respond_now_requested /\ Pre.respond_to_suggestion_requested
    /\ Len(Calls) = 2 /\ Returned

\* C2: from a chat message with auto-reply off, no flag set and nothing queued, a
\* route_intent call makes exactly one backend call (the draft), returns None and
\* leaves one queued suggestion holding that message and that draft; after
\* trigger_respond_to_suggestion the next route_intent call makes exactly one backend
\* call, the verify pass over the queued draft, and (that call not raising) returns
\* its output and leaves nothing queued.
C2_QueueThenApprove ==
    /\ history.queue_then_approve.phase = 1
        => /\ Len(Calls) = 1 /\ IsDraftFor(Calls[1], Pre.last_message)
           /\ ~Returned
           /\ last_message = Pre.last_message
           /\ suggested_response =
                  [kind |-> "dict", message |-> Pre.last_message, draft |-> Calls[1].out]
           /\ history.queue_then_approve.draft = Calls[1].out
    /\ history.queue_then_approve.phase = 2
        => /\ suggested_response.kind = "dict"
           /\ suggested_response.draft = history.queue_then_approve.draft
    /\ history.queue_then_approve.phase = 3
        => /\ Len(Calls) = 1
           /\ IsVerifyOf(Calls[1], last_message, history.queue_then_approve.draft)
           /\ ~result.raised
               => /\ Returned /\ result.ret = Calls[1].out
                  /\ suggested_response = NoSuggestion

\* the approved second call has returned the verified text of a non-empty draft
C2_Witness ==
    /\ history.queue_then_approve.phase = 3
    /\ ~result.raised /\ Returned
    /\ ~history.queue_then_approve.draft.empty
    /\ result.ret.prompt.draft.id = history.queue_then_approve.draft.id
    /\ suggested_response = NoSuggestion

\* C3: register_message always leaves the suggestion slot empty; and after a
\* suggestion was queued for A, register_message(B), trigger_respond_to_suggestion,
\* route_intent runs a fresh draft for B and verifies that draft: the draft queued for
\* A is neither passed to a verify pass nor returned.
C3_RegisterDiscardsSuggestion ==
    /\ result.op = "register_message"
        => suggested_response = NoSuggestion /\ last_message = result.arg
    /\ (history.stale_then_approve.phase = 3 /\ last_message.kind = "dict")
        => /\ Len(Calls) >= 1 /\ IsDraftFor(Calls[1], last_message)
           /\ Calls[1].raised \/ Calls[1].out.id > history.stale_then_approve.draft.id
           /\ \A i \in 1..Len(Calls) :
                  /\ Calls[i].out # history.stale_then_approve.draft
                  /\ Calls[i].prompt.draft.id # history.stale_then_approve.draft.id
                         \/ Calls[i].prompt.draft = NoRef
           /\ result.ret # history.stale_then_approve.draft
           /\ ~Calls[1].raised
               => /\ Len(Calls) = 2
                  /\ IsVerifyOf(Calls[2], last_message, Calls[1].out)
                  /\ ~result.raised => result.ret = Calls[2].out

\* A's non-empty draft was queued, B (another chat message) registered and approved:
\* the answer was verified from B's own draft
C3_Witness ==
    /\ history.stale_then_approve.phase = 3
    /\ ~history.stale_then_approve.draft.empty
    /\ history.stale_then_approve.draft.prompt.text = ChatA.text
    /\ last_message = ChatB
    /\ ~Pre.auto_reply_enabled /\ ~Pre.respond_now_requested
    /\ Returned /\ ~result.ret.prompt.draft.id = 0
    /\ result.ret.prompt.draft.text = ChatB.text

\* C4: once a route_intent call has acted on a one-shot flag the flag is false, and
\* it stays false over further route_intent calls until its trigger method is called
\* again; however many times the trigger was called before that call, at most one
\* response is released through it.
C4_OneShot ==
    /\ history.now.spent => ~respond_now_requested
    /\ history.sug.spent => ~respond_to_suggestion_requested
    /\ history.now.burst = 0 => ~respond_now_requested
    /\ history.sug.burst = 0 => ~respond_to_suggestion_requested
    /\ history.now.released <= 1
    /\ history.sug.released <= 1

\* respond-now was triggered twice, released one response, and a later route_intent
\* call (co-pilot, nothing approved) has returned None with the flag still false
C4_Witness ==
    /\ history.now.burst >= 2 /\ history.now.spent /\ history.now.released = 1
    /\ Routed /\ ~Pre.respond_now_requested /\ Pre.last_message \in ChatMessages
    /\ ~Pre.auto_reply_enabled /\ ~Returned /\ ~result.raised
    /\ ~respond_now_requested

\* C5 as stated: whenever a one-shot flag is true and route_intent is called with a
\* message registered, that flag is false when the call returns, whatever the
\* message's source and the auto-reply setting.
C5_ConsumedOnEveryRoute ==
    (Routed /\ Pre.last_message.kind = "dict" /\ ~result.raised)
        => /\ Pre.respond_now_requested => ~respond_now_requested
           /\ Pre.respond_to_suggestion_requested => ~respond_to_suggestion_requested

\* C5 amended: a one-shot flag is consumed by the next route_intent call that reaches
\* its test.  For a chat message with auto-reply off: respond_now_requested, if true,
\* is false after the call, and respond_to_suggestion_requested is then left as it
\* was; respond_to_suggestion_requested, if true while respond_now_requested is false,
\* is false after the call (provided the draft call needed to queue a suggestion did
\* not raise).  A call on a voice message or with auto-reply on leaves both flags as
\* they were.
C5_ConsumedWhenTested ==
    Routed =>
        /\ ActsOnNow(Pre)
            => /\ ~respond_now_requested
               /\ respond_to_suggestion_requested = Pre.respond_to_suggestion_requested
        /\ ActsOnSuggestion(Pre, Calls)
            => ~respond_to_suggestion_requested /\ ~respond_now_requested
        /\ (Pre.last_message \in VoiceMessages
                \/ (Pre.last_message \in ChatMessages /\ Pre.auto_reply_enabled))
            => /\ respond_now_requested = Pre.respond_now_requested
               /\ respond_to_suggestion_requested = Pre.respond_to_suggestion_requested

\* the suggestion flag was set with nothing queued: one call drafted, consumed the
\* flag, verified and returned
C5_Witness ==
    /\ Routed /\ ActsOnSuggestion(Pre, Calls)
    /\ Pre.suggested_response.kind = "None"
    /\ Len(Calls) = 2 /\ Returned
    /\ ~respond_to_suggestion_requested

\* C6: every non-None value returned by route_intent is the output of a verify-pass
\* call whose prompt holds a draft produced by an earlier draft-pass call for the same
\* message (in this call, or queued as the suggestion by an earlier one); the output
\* of a draft-pass call is never returned.
C6_OnlyVerifiedText ==
    (Routed /\ Returned) =>
        /\ Len(Calls) >= 1
        /\ result.ret = Calls[Len(Calls)].out
        /\ result.ret.prompt.mode = "verify"
        /\ \A i \in 1..Len(Calls) :
               Calls[i].source = "intent_router_draft" => result.ret # Calls[i].out
        /\ \/ TwoPass(Calls, Pre.last_message)
           \/ /\ Len(Calls) = 1
              /\ Pre.suggested_response.kind = "dict"
              /\ IsVerifyOf(Calls[1], Pre.suggested_response.message,
                            Pre.suggested_response.draft)
              /\ Pre.suggested_response.draft.kind = "str"
              /\ Pre.suggested_response.draft.prompt.mode = "draft"
              /\ Pre.suggested_response.draft.prompt.user = Calls[1].prompt.user
              /\ Pre.suggested_response.draft.prompt.text = Calls[1].prompt.text
              /\ Pre.suggested_response.draft.id < result.ret.id

\* a text was released from a suggestion drafted by an earlier call, with other
\* backend calls made in between
C6_Witness ==
    /\ Routed /\ Returned /\ Len(Calls) = 1
    /\ result.ret.prompt.draft.id > 0
    /\ result.ret.id > result.ret.prompt.draft.id + 1

\* C7: with auto-reply off, route_intent on a chat message returns a text only if
\* respond_now_requested or respond_to_suggestion_requested was set when it was
\* called; otherwise it returns None and the message sits as the queued suggestion.
C7_NoSpeechWithoutApproval ==
    (Routed /\ Pre.last_message \in ChatMessages /\ ~Pre.auto_reply_enabled) =>
        /\ Returned
            => Pre.respond_now_requested \/ Pre.respond_to_suggestion_requested
        /\ (~Pre.respond_now_requested /\ ~Pre.respond_to_suggestion_requested)
            => /\ ~Returned
               /\ last_message = Pre.last_message
               /\ ~respond_now_requested /\ ~respond_to_suggestion_requested
               /\ ~result.raised
                   => /\ suggested_response.kind = "dict"
                      /\ suggested_response.message = Pre.last_message

\* an unapproved route with a suggestion already queued: no backend call, None
C7_Witness ==
    /\ Routed /\ Pre.last_message \in ChatMessages /\ ~Pre.auto_reply_enabled
    /\ ~Pre.respond_now_requested /\ ~Pre.respond_to_suggestion_requested
    /\ Pre.suggested_response.kind = "dict"
    /\ Len(Calls) = 0 /\ ~Returned
    /\ suggested_response = Pre.suggested_response

\* C8: with auto-reply on, route_intent on a chat message makes exactly two backend
\* calls (draft, verify), returns the verify output (backend calls not raising), and
\* leaves suggested_response as it was.
C8_AutoReplyBypassesQueue ==
    (Routed /\ Pre.last_message \in ChatMessages /\ Pre.auto_reply_enabled) =>
        /\ suggested_response = Pre.suggested_response
        /\ ~result.raised
            => /\ TwoPass(Calls, Pre.last_message)
               /\ result.ret = Calls[2].out
               /\ Returned

\* auto-reply answered while a suggestion was queued, and the suggestion is still there
C8_Witness ==
    /\ Routed /\ Pre.last_message \in ChatMessages /\ Pre.auto_reply_enabled
    /\ Pre.suggested_response.kind = "dict"
    /\ Returned /\ Len(Calls) = 2
    /\ suggested_response = Pre.suggested_response

\* C11: when a backend call raises during route_intent, it is the last backend call
\* of that invocation (no retry, no later pass), the exception leaves route_intent
\* and no text is returned; a failed verify pass does not hand back the draft.
C11_FailureEndsTheCall ==
    Routed =>
        \A i \in 1..Len(Calls) :
            Calls[i].raised
                => /\ i = Len(Calls)
                   /\ result.raised
                   /\ ~Returned

\* the draft pass succeeded and the verify pass raised: two calls, no text
C11_Witness ==
    /\ Routed /\ Len(Calls) = 2
    /\ ~Calls[1].raised /\ ~Calls[1].out.empty
    /\ Calls[2].raised
    /\ result.raised /\ ~Returned

\* C12 (as claimed): no exception leaves route_intent.
C12_NeverRaises == Routed => ~result.raised

\* C12 (as the code behaves): route_intent catches nothing.  An exception leaves
\* it exactly when the last backend call it made raised, whichever pass that was;
\* no backend failure is turned into a normal return.
C12_FailurePropagates ==
    Routed =>
        (result.raised <=> (Len(Calls) > 0 /\ Calls[Len(Calls)].raised))

\* co-pilot mode: the draft call for the suggestion raises and the exception leaves
\* route_intent with nothing queued
C12_Witness ==
    /\ Routed /\ Pre.last_message \in ChatMessages /\ ~Pre.auto_reply_enabled
    /\ ~Pre.respond_now_requested
    /\ Len(Calls) = 1 /\ Calls[1].source = "intent_router_draft" /\ Calls[1].raised
    /\ result.raised
    /\ suggested_response.kind = "None"

(***************************************************************************)
(* Properties of the router called from several threads (SpecConc).        *)
(***************************************************************************)
\* the text d was drafted for the message m
DraftedFor(d, m) == d.prompt.user = m.user /\ d.prompt.text = m.text

\* worker w is past the statement that queues its draft (line 139)
PastQueueing(w) == pc[w] \in {"l145", "l146", "l149", "l150", "final_call", "l153", "done"}

\* C9: when register_message(B) has run while a co-pilot route_intent call for A was
\* blocked in its draft call, the call is not interrupted (its draft is the one for
\* A), and once the call has queued its suggestion the slot does not pair A's draft
\* with B; no route_intent call returns a text verified from a draft for one message
\* as the answer to another.
C9_NoStaleDraftAfterRegister ==
    /\ \A w \in Workers :
           (loc[w].interrupted /\ PastQueueing(w) /\ suggested_response.kind = "dict")
               => DraftedFor(suggested_response.draft, suggested_response.message)
    /\ \A w \in Workers :
           (pc[w] = "done" /\ loc[w].ret.kind # "None" /\ loc[w].ret.prompt.draft # NoRef)
               => /\ loc[w].ret.prompt.draft.user = loc[w].ret.prompt.user
                  /\ loc[w].ret.prompt.draft.text = loc[w].ret.prompt.text

\* C10: after a single trigger_respond_now (or trigger_respond_to_suggestion), of the
\* route_intent calls running concurrently at most one consumes the flag and at most
\* one response is released.
C10_ConsumedOncePerTrigger ==
    /\ conc.now.consumed <= 1 /\ conc.now.released <= 1
    /\ conc.sug.consumed <= 1 /\ conc.sug.released <= 1

(***************************************************************************)
(* Properties of the EventBus (SpecBus).                                   *)
(***************************************************************************)
Published == published.op = "publish"

\* the callbacks of the subscribe calls made for event e before the publish on
\* record returned, in the order of the calls
SubscribedTo(e) ==
    LET ForE(x) == x.event = e
        calls == SelectSeq(SubSeq(sub_log, 1, published.subs), ForE)
    IN  [i \in 1..Len(calls) |-> calls[i].callback]

\* C13: publish(e, payload) has, when it returns, invoked with the payload the
\* callback of every subscribe call made for e, once per subscribe call and in the
\* order of those calls (a callback subscribed twice is invoked twice), and no
\* callback subscribed only to other event names; with no subscriber for e it invokes
\* nothing and raises nothing.
C13_PublishInvokesSubscribersInOrder ==
    Published =>
        LET want == SubscribedTo(published.event)
        IN  /\ Len(published.invoked) = Len(want)
            /\ \A i \in 1..Len(want) :
                   /\ published.invoked[i].callback = want[i]
                   /\ published.invoked[i].data = published.data
            /\ \A i \in 1..Len(published.invoked) :
                   \E j \in 1..published.subs :
                       /\ sub_log[j].event = published.event
                       /\ sub_log[j].callback = published.invoked[i].callback
            /\ want = <<>> => (published.invoked = <<>> /\ ~published.raised)

\* one callback subscribed twice to the published event, another only to the
\* other event: two invocations of the first, none of the second
C13_Witness ==
    /\ Published
    /\ published.subs = 3
    /\ \E c \in Callbacks : \E other \in Callbacks \ {c} :
           /\ SubscribedTo(published.event) = <<c, c>>
           /\ \E j \in 1..3 : /\ sub_log[j].callback = other
                              /\ sub_log[j].event # published.event
           /\ Len(published.invoked) = 2
           /\ published.invoked[1].callback = c /\ published.invoked[2].callback = c

\* C14: when a callback raises during publish, the callbacks listed after it are
\* still invoked, in order; the failure is logged and publish returns normally.
C14_FailingCallbackIsIsolated ==
    (Published /\ \E i \in 1..Len(published.invoked) : published.invoked[i].raised) =>
        LET failed == {i \in 1..Len(published.invoked) : published.invoked[i].raised}
        IN  /\ ~published.raised
            /\ \A i \in failed :
                   \A k \in (i + 1)..Len(SubscribedTo(published.event)) :
                       /\ k <= Len(published.invoked)
                       /\ published.invoked[k].callback = SubscribedTo(published.event)[k]
            /\ Len(published.errors) = Cardinality(failed)
            /\ \A i \in failed :
                   \E k \in 1..Len(published.errors) :
                       published.errors[k] = published.invoked[i].callback

\* three subscribers, the first one raises, the two after it are invoked and return
C14_Witness ==
    /\ Published
    /\ Len(SubscribedTo(published.event)) = 3
    /\ Len(published.invoked) = 3
    /\ published.invoked[1].raised
    /\ ~published.invoked[2].raised /\ ~published.invoked[3].raised
    /\ published.errors = <<published.invoked[1].callback>>
    /\ ~published.raised

(***************************************************************************)
(* Properties of the CommandHandler (SpecCommands).                        *)
(***************************************************************************)
ChatCalled == cmd_result.op = "handle_chat_message"

\* the call on record named a custom command that is loaded
NamedCustom == ChatCalled /\ cmd_result.name \in DOMAIN custom_commands

Named == custom_commands[cmd_result.name]

\* the role order of the design, lowest first
RoleLadder ==
    <<ROLE_EVERYONE, ROLE_SUBSCRIBER, ROLE_VIP, ROLE_MODERATOR, ROLE_BROADCASTER>>

\* the rank of a role string: its place in the order, 0 (everyone) if it is not there
Rank(role) ==
    LET r == lower(strip(role))
    IN  IF \E i \in 1..Len(RoleLadder) : RoleLadder[i] = r
        THEN (CHOOSE i \in 1..Len(RoleLadder) : RoleLadder[i] = r) - 1
        ELSE 0

\* C15: roles are ordered everyone < subscriber < vip < moderator < broadcaster, an
\* unrecognised role string counting as everyone; for a loaded, enabled custom command
\* the result is blocked exactly when the rank of the caller's role is below the rank
\* of the required role; a moderator-only command is blocked for a subscriber, and
\* for a broadcaster it is ok exactly when the cooldown gate lets the call pass.
C15_RoleGating ==
    /\ \A u \in Roles, r \in Roles : role_allows(u, r) <=> Rank(u) >= Rank(r)
    /\ (NamedCustom /\ Named.enabled) =>
           (cmd_result.status = "blocked" <=> Rank(cmd_result.role) < Rank(Named.permission))
    /\ (NamedCustom /\ Named.enabled /\ Named.permission = ROLE_MODERATOR) =>
           /\ Rank(cmd_result.role) = 1 => cmd_result.status = "blocked"
           /\ Rank(cmd_result.role) = 4 => (cmd_result.status = "ok" <=> cmd_result.gate.ok)

\* so, for moderators, is called with the role " Moderator " and answered
C15_Witness ==
    /\ ChatCalled /\ cmd_result.name = SO /\ Named.permission = ROLE_MODERATOR
    /\ cmd_result.role = MODERATOR_RAW
    /\ cmd_result.status = "ok"

\* C16: for a name that is no built-in command the status is decided in the order
\* unknown_command, disabled, blocked, cooldown, ok: a disabled command gives disabled
\* whatever the caller's role and the cooldown ledgers, an insufficient role on an
\* enabled command gives blocked whatever the cooldown ledgers.
C16_StatusOrder ==
    (ChatCalled /\ cmd_result.name # <<>> /\ cmd_result.name \notin built_in_commands) =>
        LET known == cmd_result.name \in DOMAIN custom_commands
            allowed == Rank(cmd_result.role) >= Rank(Named.permission)
        IN  cmd_result.status =
                (IF ~known THEN "unknown_command"
                 ELSE IF ~Named.enabled THEN "disabled"
                 ELSE IF ~allowed THEN "blocked"
                 ELSE IF ~cmd_result.gate.ok THEN "cooldown"
                 ELSE "ok")

\* so was used, its cooldown is running, the file is reloaded with so switched off,
\* and a subscriber calls it: disabled, neither blocked nor cooldown
C16_Witness ==
    /\ NamedCustom /\ cmd_result.name = SO
    /\ ~Named.enabled
    /\ Rank(cmd_result.role) < Rank(Named.permission)
    /\ cmd_result.last_g > 0 /\ ~cmd_result.gate.ok
    /\ cmd_result.status = "disabled"

\* a step of handle_chat_message: the record is of such a call and the clock was
\* not advanced
ChatStep == cmd_result'.op = "handle_chat_message" /\ advances' = advances

\* C17: a handle_chat_message call whose result is not ok (None, error,
\* unknown_command, disabled, blocked, cooldown) leaves both cooldown ledgers as they
\* were.
C17_RejectedLeavesLedgers ==
    [][(ChatStep /\ cmd_result'.status # "ok")
           => UNCHANGED <<last_used_global, last_used_user>>]_vars

\* a call rejected by the cooldown gate some time after the use that started the
\* cooldown: the ledger still holds the time of that use
C17_Witness ==
    /\ NamedCustom /\ cmd_result.status = "cooldown"
    /\ cmd_result.last_g > 0 /\ cmd_result.at > cmd_result.last_g
    /\ last_used_global[cmd_result.name] = cmd_result.last_g
    /\ get(last_used_user, <<cmd_result.name, cmd_result.user>>, 0) = cmd_result.last_u

\* the call on record reached the cooldown gate of hello, loaded with a global
\* cooldown of 3 s and nothing else set, after an earlier use of hello
HelloAgain ==
    /\ NamedCustom /\ cmd_result.name = HELLO
    /\ Named = [name |-> HELLO, response |-> "Hi {{user}}", permission |-> ROLE_EVERYONE,
                cooldown_seconds |-> 3 * Second, user_cooldown_seconds |-> 10 * Second,
                enabled |-> TRUE]
    /\ cmd_result.status \in {"ok", "cooldown"}
    /\ cmd_result.last_g > 0

\* time since the last use of the command by anyone, and by the caller
SinceGlobal == cmd_result.at - cmd_result.last_g
SinceUser == cmd_result.at - cmd_result.last_u

\* the last use of the command was by the caller
OwnLastUse == cmd_result.last_u = cmd_result.last_g

\* x is y rounded to a tenth of a second
IsRounded(x, y) == x % 10 = 0 /\ x - y <= 5 /\ y - x <= 5

\* C18 (as claimed): with a global cooldown of 3 s and defaults otherwise, a call less
\* than 3 s after a successful one gives cooldown with retry_after_seconds equal to
\* 3 - elapsed, and the same user calling more than 3 s after it gets ok.
C18_OkAfterThreeSeconds ==
    HelloAgain =>
        /\ SinceGlobal < 3 * Second
               => /\ cmd_result.status = "cooldown"
                  /\ cmd_result.retry_after = 3 * Second - SinceGlobal
        /\ (OwnLastUse /\ SinceGlobal > 3 * Second) => cmd_result.status = "ok"

\* C18 (as the code behaves): a call less than 3 s after a successful one gives
\* cooldown with retry_after_seconds equal to 3 - elapsed rounded to one decimal; the
\* same user calling 3 s or more but less than 10 s (the default per-user cooldown)
\* after it still gets cooldown, with 10 - elapsed rounded to one decimal, and gets ok
\* from 10 s on; a user who has not used the command gets ok from 3 s on.
C18_OkAfterUserCooldown ==
    HelloAgain =>
        /\ SinceGlobal < 3 * Second
               => /\ cmd_result.status = "cooldown"
                  /\ IsRounded(cmd_result.retry_after, 3 * Second - SinceGlobal)
        /\ (OwnLastUse /\ SinceGlobal >= 3 * Second /\ SinceGlobal < 10 * Second)
               => /\ cmd_result.status = "cooldown"
                  /\ IsRounded(cmd_result.retry_after, 10 * Second - SinceGlobal)
        /\ (OwnLastUse /\ SinceGlobal >= 10 * Second) => cmd_result.status = "ok"
        /\ (cmd_result.last_u = 0 /\ SinceGlobal >= 3 * Second) => cmd_result.status = "ok"

\* the same user calls hello again 4 s after a successful call: cooldown, 6 s to wait
C18_Witness ==
    /\ HelloAgain /\ OwnLastUse
    /\ SinceGlobal = 4 * Second
    /\ cmd_result.status = "cooldown"
    /\ cmd_result.retry_after = 6 * Second

\* C19: the gate consults the global ledger first and reports the exact wait: a call
\* less than cooldown_seconds after the last use of the command is rejected with
\* wait cooldown_seconds - elapsed; only otherwise, a call less than
\* user_cooldown_seconds after the caller's last use is rejected with wait
\* user_cooldown_seconds - elapsed; otherwise the gate passes.  A command never used
\* before is never rejected.
C19_GlobalGateFirstExactWait ==
    (NamedCustom /\ cmd_result.status \in {"ok", "cooldown"}) =>
        /\ SinceGlobal < Named.cooldown_seconds
               => /\ cmd_result.status = "cooldown"
                  /\ cmd_result.gate = [ok |-> FALSE,
                                        wait |-> Named.cooldown_seconds - SinceGlobal]
        /\ (SinceGlobal >= Named.cooldown_seconds /\ SinceUser < Named.user_cooldown_seconds)
               => /\ cmd_result.status = "cooldown"
                  /\ cmd_result.gate = [ok |-> FALSE,
                                        wait |-> Named.user_cooldown_seconds - SinceUser]
        /\ (SinceGlobal >= Named.cooldown_seconds /\ SinceUser >= Named.user_cooldown_seconds)
               => /\ cmd_result.status = "ok"
                  /\ cmd_result.gate = [ok |-> TRUE, wait |-> 0]
        /\ cmd_result.last_g = 0 => cmd_result.status = "ok"

\* alice used hello, bob used it 4 s later, alice calls at once: both gates would
\* reject, the global one answers with its 3 s and not the 6 s of the per-user one
C19_Witness ==
    /\ NamedCustom /\ cmd_result.name = HELLO
    /\ cmd_result.last_g > cmd_result.last_u /\ cmd_result.last_u > 0
    /\ SinceGlobal < Named.cooldown_seconds
    /\ SinceUser < Named.user_cooldown_seconds
    /\ Named.cooldown_seconds - SinceGlobal # Named.user_cooldown_seconds - SinceUser
    /\ cmd_result.status = "cooldown"
    /\ cmd_result.gate.wait = Named.cooldown_seconds - SinceGlobal

\* C20: an ok call of a custom command by user u read at clock time now sets
\* last_used_global[command] and last_used_user[(command, u)] to now and changes no
\* other entry of either ledger.
C20_OkStampsBothLedgers ==
    [][(ChatStep /\ cmd_result'.status = "ok"
            /\ cmd_result'.name \notin built_in_commands)
           => LET cmd == cmd_result'.name
                  key == <<cmd_result'.name, cmd_result'.user>>
              IN  /\ DOMAIN last_used_global' = DOMAIN last_used_global \cup {cmd}
                  /\ DOMAIN last_used_user' = DOMAIN last_used_user \cup {key}
                  /\ last_used_global'[cmd] = clock
                  /\ last_used_user'[key] = clock
                  /\ \A c \in DOMAIN last_used_global \ {cmd} :
                         last_used_global'[c] = last_used_global[c]
                  /\ \A k \in DOMAIN last_used_user \ {key} :
                         last_used_user'[k] = last_used_user[k]]_vars

\* bob's first ok call of hello, after alice's and after a use of so: both entries
\* of bob's call hold the time of the call, alice's entry and so's keep theirs
C20_Witness ==
    /\ NamedCustom /\ cmd_result.name = HELLO /\ cmd_result.user = "bob"
    /\ cmd_result.status = "ok"
    /\ cmd_result.last_u = 0 /\ cmd_result.last_g > 0
    /\ last_used_global[HELLO] = cmd_result.at
    /\ last_used_user[<<HELLO, "bob">>] = cmd_result.at
    /\ <<HELLO, "alice">> \in DOMAIN last_used_user
    /\ last_used_user[<<HELLO, "alice">>] = cmd_result.last_g
    /\ SO \in DOMAIN last_used_global /\ last_used_global[SO] < cmd_result.at

(***************************************************************************)
(* Properties of _render_response (SpecRender).                            *)
(***************************************************************************)
\* the template read once from the left, every token of the template replaced by
\* its value and every other character copied
RECURSIVE substituted(_, _, _)
substituted(template, user, args) ==
    IF template = <<>> THEN <<>>
    ELSE IF starts_with(template, USER_TOKEN)
    THEN user \o substituted(SubSeq(template, Len(USER_TOKEN) + 1, Len(template)), user, args)
    ELSE IF starts_with(template, ARGS_TOKEN)
    THEN args \o substituted(SubSeq(template, Len(ARGS_TOKEN) + 1, Len(template)), user, args)
    ELSE <<Head(template)>> \o substituted(Tail(template), user, args)

Rendered == rendered.op = "_render_response"

\* C21: the rendered text is the template with every {{user}} token of the template
\* replaced by the user string and every {{args}} token of the template replaced by
\* the args string, everything else copied and the values inserted verbatim.
C21_OnlyTemplateTokensSubstituted ==
    Rendered => rendered.out = substituted(rendered.template, rendered.user, rendered.args)

(***************************************************************************)
(* Properties of AIEngine.process and the memory store (SpecEngine).       *)
(***************************************************************************)
Processed == engine_result.op = "process"

\* s is t or the beginning of t
IsPrefix(s, t) == Len(s) <= Len(t) /\ SubSeq(t, 1, Len(s)) = s

\* C22: every process call of an engine with a memory store attached appends exactly
\* one item to the store, carrying the inferred priority, and no step mutates or removes
\* an item stored before.
C22_ProcessAppendsOneItem ==
    [][/\ (engine_result'.op = "process" /\ engine_result'.memory # "None")
              => /\ Len(long_term') = Len(long_term) + 1
                 /\ Len(short_term') > 0
                 /\ long_term'[Len(long_term')] = short_term'[Len(short_term')]
                 /\ long_term'[Len(long_term')].metadata.priority = engine_result'.priority
       /\ IsPrefix(long_term, long_term')]_vars

\* C23: when the memory call inside process fails, the failure is logged, both events
\* are published, the response backend is called, its reply is returned and nothing is
\* raised.
C23_MemoryFailureDoesNotBlock ==
    (Processed /\ engine_result.attempt.failed) =>
        /\ ~engine_result.raised
        /\ engine_result.logged
        /\ Len(engine_result.events) = 2
        /\ engine_result.events[1].event = "ai.message_received"
        /\ engine_result.events[2].event = "ai.message_replied"
        /\ engine_result.backend_called
        /\ engine_result.reply.kind \in {"model", "stub"}
        /\ engine_result.events[2].reply = engine_result.reply

\* process on an engine with a MemoryManager: the memory call raises AttributeError and
\* the reply of the local model is returned
C23_Witness ==
    /\ Processed
    /\ engine_result.memory = "MemoryManager"
    /\ engine_result.attempt.error = "AttributeError"
    /\ ~engine_result.raised
    /\ engine_result.reply = [kind |-> "model", via |-> "local", empty |-> FALSE, quoted |-> <<>>]

(***************************************************************************)
(* Properties of the orchestrator's callbacks (SpecMain).                  *)
(***************************************************************************)
VoiceHandled == main_result.op = "handle_voice_transcribed"

\* route_intent returned a non-empty text
Approved == main_result.routed /\ ~main_result.raised /\ main_result.ret.kind = "str"
                /\ ~main_result.ret.empty

\* C24 (as claimed): on a voice.transcribed event at most one text is spoken and only
\* one the router approved: tts.speak is called with exactly the value route_intent
\* returned when that value is non-empty, and is not called when route_intent returned
\* None or an empty text, raised, or was not called; no exception leaves the handler.
C24_SpeaksOnlyRouterText ==
    VoiceHandled =>
        /\ Len(main_result.spoken) <= 1
        /\ Approved => main_result.spoken = <<main_result.ret>>
        /\ ~Approved => main_result.spoken = <<>>
        /\ ~main_result.escaped

\* the text of the event is a string with something other than blanks in it
HasWords ==
    /\ payload_text(main_result.data).type = "str"
    /\ strip(payload_text(main_result.data).chars) # <<>>

\* the event has no text, or a string of blanks only
NoWords ==
    /\ payload_text(main_result.data).type = "str"
    /\ strip(payload_text(main_result.data).chars) = <<>>

\* C24 (as the code behaves): for an event whose text is a string with words in it,
\* the handler registers it, calls route_intent once and calls tts.speak with exactly
\* the returned value when that is a non-empty text, and does not call it when
\* route_intent returned None or an empty text or raised.  For an event without text or
\* with blank text the handler speaks its fixed fallback sentence without calling the
\* router.  At most one text is spoken per event and no exception leaves the handler.
C24_SpeaksRouterTextOrFallback ==
    VoiceHandled =>
        /\ Len(main_result.spoken) <= 1
        /\ HasWords => /\ main_result.routed
                       /\ Approved => main_result.spoken = <<main_result.ret>>
                       /\ ~Approved => main_result.spoken = <<>>
        /\ NoWords => ~main_result.routed /\ main_result.spoken = <<FALLBACK>>
        /\ (~HasWords /\ ~NoWords) => ~main_result.routed /\ main_result.spoken = <<>>
        /\ ~main_result.escaped

\* a spoken text was routed, both passes returned a text and tts.speak was called
\* with the output of the verify pass
C24_Witness ==
    /\ VoiceHandled /\ HasWords /\ Approved
    /\ Len(main_result.calls) = 2
    /\ main_result.spoken = <<main_result.calls[2].out>>

\* the model endpoint was unavailable or failed in the draft or the verify call
EndpointFailed ==
    /\ main_result.routed
    /\ \/ main_result.run1 \in EndpointFailures
       \/ Len(main_result.calls) = 2 /\ main_result.run2 \in EndpointFailures

\* C25: when the model endpoint is unavailable or fails during the draft or the verify
\* call for a voice message, no reply text is spoken for that message.
C25_EndpointFailureIsSilent ==
    (VoiceHandled /\ EndpointFailed) => main_result.spoken = <<>>

\* C26: a voice.transcribed event whose text is not a string is dropped: no message is
\* registered, route_intent is not called, nothing is spoken, nothing is raised, and
\* the router's fields are what they were.
C26_NonStringTextIsDropped ==
    [][(main_result'.op = "handle_voice_transcribed"
            /\ payload_text(main_result'.data).type # "str")
           => /\ ~main_result'.registered
              /\ ~main_result'.routed
              /\ main_result'.calls = <<>>
              /\ main_result'.spoken = <<>>
              /\ ~main_result'.escaped
              /\ UNCHANGED <<auto_reply_enabled, respond_now_requested,
                             respond_to_suggestion_requested, last_message,
                             suggested_response, n_calls>>]_vars

\* an event with an int for text arrives after a spoken text was handled and a
\* respond-now was requested: the registered message and the flag are still there
C26_Witness ==
    /\ VoiceHandled
    /\ main_result.data = D_INT
    /\ ~main_result.registered /\ main_result.spoken = <<>>
    /\ last_message.kind = "dict"
    /\ respond_now_requested


(***************************************************************************)
(* C27.  The hotkey thread never waits while a recorder thread is inside   *)
(* the draft call or the verify call of route_intent: in no reachable      *)
(* state is the hotkey thread held in stop_recording's join while a        *)
(* recorder is in a backend call.                                          *)
(***************************************************************************)
HotkeyWaits == hotkey.pc = "join"

C27_HotkeyNeverWaitsOnBackend ==
    ~(HotkeyWaits /\ in_backend_call(recorder, hotkey.worker))


(***************************************************************************)
(* C28.  A one-shot trigger counts only for the message that was current   *)
(* when it was made: no route_intent call releases a response through a    *)
(* flag that was set only by trigger calls made before the last            *)
(* register_message call.                                                  *)
(***************************************************************************)
RouteReleases == n_calls' > n_calls /\ result'.ret.kind # "None"

C28_TriggerBoundToItsMessage ==
    [][RouteReleases =>
           /\ ~(ActsOnNow(Self) /\ stale.now)
           /\ ~(ActsOnSuggestion(Self, result'.calls) /\ stale.sug)]_vars


(***************************************************************************)
(* C29.  A route_intent call in which a backend call raised.               *)
(***************************************************************************)
Failed == Routed /\ result.raised

\* the call got past the voice and auto-reply branches
Gated(pre) ==
    has_message(pre) /\ ~is_voice(pre.last_message) /\ ~pre.auto_reply_enabled

\* the call tested the respond-now flag and found it set
TestedNow(pre) == Gated(pre) /\ pre.respond_now_requested

\* the call went through co-pilot mode
Copilot(pre) == Gated(pre) /\ ~pre.respond_now_requested

\* the call that raised was a verify pass of co-pilot mode
VerifyFailed(pre, calls) ==
    Copilot(pre) /\ calls[Len(calls)].source = "intent_router_verify"

\* C29 as stated: a failed route leaves auto_reply_enabled, both one-shot flags,
\* last_message and suggested_response with the values they had before the call
C29_FailedRouteChangesNothing == Failed => Self = Pre

\* C29, amended: a failed route releases nothing and leaves auto_reply_enabled and
\* last_message as they were; a one-shot flag the call tested and found set is reset
\* although the call failed, any other flag keeps its value; in co-pilot mode the
\* draft of a draft call that returned is queued for the current message even when
\* the verify pass over it raised, otherwise suggested_response keeps its value
C29_FailedRouteKeepsWhatItDidNotConsume ==
    Failed =>
        /\ ~Returned
        /\ auto_reply_enabled = Pre.auto_reply_enabled
        /\ last_message = Pre.last_message
        /\ respond_now_requested = (Pre.respond_now_requested /\ ~TestedNow(Pre))
        /\ respond_to_suggestion_requested =
               (Pre.respond_to_suggestion_requested /\ ~VerifyFailed(Pre, Calls))
        /\ suggested_response =
               IF Copilot(Pre) /\ Len(Calls) = 2
               THEN queued(Pre.last_message, Calls[1].out)
               ELSE Pre.suggested_response

\* a failed verify pass after a fresh draft: the trigger is gone and the draft queued
C29_Witness ==
    /\ Failed
    /\ Pre.respond_to_suggestion_requested /\ ~respond_to_suggestion_requested
    /\ ~has_suggestion(Pre) /\ has_suggestion(Self)
    /\ Len(Calls) = 2


(***************************************************************************)
(* C30.  publish(e) invokes exactly the callbacks subscribed to e when it  *)
(* was called: when it returns, the callbacks invoked are those of the     *)
(* list at entry, in order and as many, whatever the callbacks subscribed  *)
(* meanwhile.                                                              *)
(***************************************************************************)
PublishReturned == dispatch.pc = "returned"

C30_PublishInvokesEntrySubscribers ==
    PublishReturned => dispatch.invoked = dispatch.entry


(***************************************************************************)
(* Properties of the CommandHandler with cooldowns of 0 and custom         *)
(* commands named like built-in ones (SpecCommandsZero).                   *)
(***************************************************************************)
\* the file's entry for the command now sets both cooldowns to 0
ZeroConfigured ==
    \E i \in 1..Len(CommandsFileZero) :
        /\ CommandsFileZero[i].name = NOW
        /\ CommandsFileZero[i].cfg.cooldown_seconds = 0
        /\ CommandsFileZero[i].cfg.user_cooldown_seconds = 0

\* C31: a command configured with cooldown_seconds = 0 and user_cooldown_seconds = 0
\* is, once loaded, never answered with status cooldown, however quickly and by
\* whomever it is invoked again.
C31_ZeroCooldownNeverRejects ==
    (ZeroConfigured /\ NamedCustom /\ cmd_result.name = NOW)
        => cmd_result.status # "cooldown"


\* C32: the built-in commands ping and help are resolved before the custom
\* commands: a call that names one returns ok for every user and role, is never
\* rejected, and leaves both cooldown ledgers as they were, also when a custom
\* command of the same name is loaded (switched off, for a higher role, with a
\* cooldown): the custom command is not executed in its place.
C32_BuiltInsFirst ==
    [][(ChatStep /\ cmd_result'.name \in {PING, HELP})
           => /\ cmd_result'.status = "ok"
              /\ cmd_result'.retry_after = 0
              /\ last_used_global' = last_used_global
              /\ last_used_user' = last_used_user]_vars

\* !ping by a user without a role, while a custom ping is loaded switched off and
\* for the broadcaster, and the ledgers hold the use of another command
C32_Witness ==
    /\ ChatCalled /\ cmd_result.name = PING /\ cmd_result.role = <<>>
    /\ PING \in DOMAIN custom_commands
    /\ ~custom_commands[PING].enabled
    /\ custom_commands[PING].permission = ROLE_BROADCASTER
    /\ NOW \in DOMAIN last_used_global
    /\ PING \notin DOMAIN last_used_global
    /\ cmd_result.status = "ok"


(***************************************************************************)
(* Properties of the engine's choice of path (SpecEngineModes).            *)
(***************************************************************************)
ModeRun == mode_result.op = "process"

\* C33: with the engine offline-only, or with the online features not enabled,
\* process does not take the online path and does not post to the hosted API,
\* whatever the message; when the online path is taken and the hosted API fails,
\* process raises nothing and returns what the offline path returns.
C33_OfflineNeverCallsOnline ==
    ModeRun =>
        /\ (mode_result.offline_only \/ ~mode_result.backend.online_enabled)
               => /\ ~mode_result.online_path
                  /\ ~mode_result.api_called
                  /\ mode_result.reply.via # "openai"
        /\ (mode_result.api_called /\ mode_result.backend.openai \in OnlineFailures)
               => /\ ~mode_result.raised
                  /\ mode_result.reply.kind \in {"model", "stub"}
                  /\ mode_result.reply.via \in {"local", "stub"}
                  /\ mode_result.reply =
                         call_offline(mode_result.message, mode_result.backend.local)

\* an offline-only engine while the settings enable the online features, the key is
\* set and the hosted API would answer: the reply is the offline stub
C33_Witness ==
    /\ ModeRun
    /\ mode_result.offline_only
    /\ mode_result.backend.online_enabled /\ mode_result.backend.api_key
    /\ mode_result.backend.openai = "text"
    /\ ~mode_result.api_called
    /\ mode_result.reply.via = "stub"


(***************************************************************************)
(* C34.  The listener runs at most one recorder thread at any time, and    *)
(* _is_recording is true whenever a recorder thread is alive, whatever the *)
(* order of start_recording, stop_recording and the end of a recorder.     *)
(***************************************************************************)
AliveRecorders == {w \in Recorders : is_alive(recorder, w)}

C34_OneRecorderFlagged ==
    /\ Cardinality(AliveRecorders) <= 1
    /\ AliveRecorders # {} => listener.is_recording


(***************************************************************************)
(* LocalTTS: the queue and the worker (SpecTTS, SpecTTSFair).              *)
(***************************************************************************)
\* the text the worker holds, between taking it off the queue and the end of its
\* utterance
InProgress == tts.pc \in {"l87", "speaking"}

\* the utterances the worker has finished with, and the one it holds, are the
\* texts put on the queue, each once and in the order of the speak calls
SpokenInOrder ==
    /\ Len(tts.attempts) <= Len(tts.said)
    /\ \A i \in 1..Len(tts.attempts) : tts.attempts[i].text = tts.said[i]
    /\ InProgress =>
        /\ Len(tts.attempts) < Len(tts.said)
        /\ tts.item = tts.said[Len(tts.attempts) + 1]
    /\ tts.is_speaking => tts.pc = "speaking"

\* C35: every non-empty text passed to speak is handed to the engine exactly once,
\* in the order of the speak calls and one at a time, and, unless stop() is called,
\* the worker eventually gets to every one of them, also after utterances that
\* raised.
C35_EverySpokenOnceInOrder ==
    /\ []SpokenInOrder
    /\ \A i \in 1..MaxUtterances :
        [](Len(tts.said) >= i => <>(Len(tts.attempts) >= i \/ tts.stop_event))

\* an utterance was spoken after an earlier one had raised, with no stop()
C35_Witness ==
    /\ ~tts.stop_event
    /\ \E i \in 1..Len(tts.attempts) : \E j \in 1..Len(tts.attempts) :
        /\ i < j
        /\ tts.attempts[i].failed
        /\ ~tts.attempts[j].failed
        /\ tts.attempts[i].text # tts.attempts[j].text

\* C36: wait_until_done returns True only when every utterance put on the queue
\* before the call has finished being spoken, and False only on timeout.
C36_TrueOnlyWhenAllSpoken ==
    (waiter.pc = "returned" /\ waiter.ret = "True") =>
        Len(tts.attempts) >= waiter.upto


(***************************************************************************)
(* The vision watch toggle (SpecWatch).                                    *)
(***************************************************************************)
\* C37: when the handler has published vision.watch.set with enabled = True a
\* watch loop thread is running and is_watching() is True, when it has published
\* enabled = False the loop has been told to stop, and at most one loop thread is
\* alive.
C37_ToggleReportsRealState ==
    /\ (toggle.pc = "published" /\ toggle.enabled) =>
            (is_watching(watch) /\ watch.alive # {})
    /\ (toggle.pc = "published" /\ ~toggle.enabled) =>
            (watch.watch_stop /\ ~is_watching(watch))
    /\ Cardinality(watch.alive) <= 1


(***************************************************************************)
(* Hands (SpecHands).                                                      *)
(***************************************************************************)
\* the backend calls of the last execute that launch an app, and that close a window
Launched == {i \in 1..Len(hands.last.performed) : hands.last.performed[i].call = "subprocess.Popen"}
ClosedWindow ==
    \E i \in 1..Len(hands.last.performed) :
        hands.last.performed[i].arg = <<"a", "l", "t", "+", "f", "4">>

\* the last call of execute kept to the gate, the allowlist, the confirmation and
\* the dry-run switch
GatedExecute ==
    /\ (hands.last.called /\ hands.last.action.kind = "dict" /\ ~hands.last.enabled) =>
            (hands.last.raised /\ hands.last.performed = <<>>)
    /\ \A i \in Launched : hands.last.performed[i].arg \in allow_apps
    /\ ClosedWindow =>
            get(hands.last.action.items, "confirm", PyBool(FALSE)) = PyBool(TRUE)
    /\ (hands.last.called /\ hands.last.dry_run) => hands.last.performed = <<>>

\* C38: Hands start disabled; with the gate off execute performs nothing and
\* raises HandsError for every action dict; with the gate on only allowlisted apps
\* are launched, close_window is performed only with confirm=True, and in dry-run
\* mode nothing is performed.
C38_HandsGated == ~hands.enabled /\ []GatedExecute

\* C39: every call of execute appends exactly one record to the audit log, with
\* ok = True exactly when the action was carried out.
C39_EveryCallAudited ==
    /\ Len(hands.audit) = hands.calls
    /\ hands.last.called =>
        /\ Len(hands.last.audit) = 1
        /\ hands.last.audit[1].ok = (hands.last.performed # <<>>)

====
